---------------------------- MODULE Spec2Model ----------------------------
(***************************************************************************)
(* A model of sequence_jacobian/blocks/simple_block.py: the SimpleSparse   *)
(* shift-operator algebra (multiply_basis, multiply_rs_rs,                 *)
(* multiply_rs_matrix, __add__, matrix, __matmul__, __rmatmul__) and the   *)
(* SimpleBlock.jac differentiation driver with its Reporter and Perturb    *)
(* probes.                                                                 *)
(*                                                                         *)
(* A basis key (i, m) is the tuple <<i, m>>.  A SimpleSparse object is its *)
(* 'elements' dict: a function from a finite set of keys to coefficients.  *)
(* Python dicts compare equal whatever their insertion order, so the       *)
(* function (which has no order) is the dict up to __eq__.  In the        *)
(* operator algebra coefficients are integers and the arithmetic is exact. *)
(* In jac and in the value classes of Part 3 a float is an integer count   *)
(* of units 2^-FracBits and every arithmetic operation rounds its exact    *)
(* result to Precision significant bits, ties to even, as IEEE arithmetic  *)
(* does with 53 bits.  A dense array is a record with its ndim, its shape  *)
(* and its data indexed from 0 as in NumPy.  Where the identity of an      *)
(* object matters (which dict or array memory a statement writes to), the  *)
(* last part keeps the objects in a heap and the operators by reference.   *)
(***************************************************************************)
EXTENDS Integers, Sequences, FiniteSets, TLC

VARIABLES
    t1, t2, t3,     \* basis keys handed to multiply_basis
    s1, s2,         \* SimpleSparse operands (their elements dicts)
    T,              \* horizon handed to matrix(T)
    A,              \* dense operand (np.ndarray) of @ and +
    op,             \* the operation evaluated last
    out, out2,      \* what the operations returned
    f,              \* SimpleBlock.f, with its input_list and output_list
    ss, shock_list, h,  \* the arguments of jac (its T is the horizon T, 0 when omitted)
    pc,             \* where jac stands
    kpos,           \* position in shock_list of the input k of the outer loop
    x_ss_new,       \* jac's dict of bindings handed to f
    myset,          \* reporter.myset, then relevant_displacements
    todo,           \* the displacements the inner loop has not reached yet
    raw_derivatives,
    J,              \* what jac returns
    left, right,    \* operands of an expression over Ignore, IgnoreVector, Displace
    offset,         \* the index of the call left(index)
    opname,         \* the expression evaluated last
    kwargs,         \* the time paths handed to td
    res,            \* what the expression, or td, returned
    heap,           \* the Python objects of the algebra, by identity
    call            \* the operation applied last to objects of the heap

algVars == <<t1, t2, t3, s1, s2, T, A, op, out, out2>>

jacVars == <<f, ss, shock_list, h, pc, kpos, x_ss_new, myset, todo, raw_derivatives, J>>

valVars == <<left, right, offset, opname, kwargs, res>>

objVars == <<heap, call>>

vars == <<algVars, jacVars, valVars, objVars>>

----------------------------------------------------------------------------
(* Helpers.                                                                *)

Max(a, b) == IF a >= b THEN a ELSE b

Min(a, b) == IF a <= b THEN a ELSE b

Abs(a) == IF a >= 0 THEN a ELSE -a

\* The value of a variable no operation has written yet.
NoVal == [kind |-> "none"]

\* The empty elements dict {}.
EmptyDict == [im \in {} |-> 0]

\* All subsets of S with at most k members.
RECURSIVE SubsetsUpTo(_, _)
SubsetsUpTo(S, k) ==
    IF k = 0 THEN {{}}
    ELSE LET smaller == SubsetsUpTo(S, k - 1)
         IN  smaller \cup {X \cup {e} : X \in smaller, e \in S}

\* Every elements dict with at most k keys drawn from keys, coefficients from coefs.
OperatorsOver(keys, coefs, k) ==
    UNION {[K -> coefs] : K \in SubsetsUpTo(keys, k)}

----------------------------------------------------------------------------
(* multiply_basis, simple_block.py 304-323.                                *)

\* A slip in the last branch: max(m, n) + max(-i, j) instead of min(-i, j).
multiply_basis_MaxSlip(k1, k2) ==
    LET i == k1[1]
        m == k1[2]
        j == k2[1]
        n == k2[2]
        k == i + j
        l == IF i >= 0
             THEN IF j >= 0 THEN Max(m, n - i)
                  ELSE IF k >= 0 THEN Max(m, n - k)
                  ELSE Max(m + k, n)
             ELSE IF j <= 0 THEN Max(m + j, n)
                  ELSE Max(m, n) + Max(-i, j)
    IN  <<k, l>>

\* A slip in the third branch: the shift k applied to n instead of m.
multiply_basis_SwapShift(k1, k2) ==
    LET i == k1[1]
        m == k1[2]
        j == k2[1]
        n == k2[2]
        k == i + j
        l == IF i >= 0
             THEN IF j >= 0 THEN Max(m, n - i)
                  ELSE IF k >= 0 THEN Max(m, n - k)
                  ELSE Max(m, n + k)
             ELSE IF j <= 0 THEN Max(m + j, n)
                  ELSE Max(m, n) + Min(-i, j)
    IN  <<k, l>>

multiply_basis(k1, k2) ==
    LET i == k1[1]
        m == k1[2]
        j == k2[1]
        n == k2[2]
        k == i + j
        l == IF i >= 0
             THEN IF j >= 0 THEN Max(m, n - i)
                  ELSE IF k >= 0 THEN Max(m, n - k)
                  ELSE Max(m + k, n)
             ELSE IF j <= 0 THEN Max(m + j, n)
                  ELSE Max(m, n) + Min(-i, j)
    IN  <<k, l>>

----------------------------------------------------------------------------
(* multiply_rs_rs, simple_block.py 326-338: every pair of keys goes        *)
(* through multiply_basis and the products x * y landing on one key are    *)
(* summed.  No coefficient is dropped here, however small.                 *)

\* Sum of f[p] over the finite set P.
RECURSIVE SumOver(_, _)
SumOver(P, g) ==
    IF P = {} THEN 0
    ELSE LET p == CHOOSE q \in P : TRUE
         IN  g[p] + SumOver(P \ {p}, g)

\* A slip in lines 334-337: a product landing on a key already present
\* replaces the coefficient instead of being added to it.
multiply_rs_rs_Overwrites(x, y) ==
    LET pairs == (DOMAIN x) \X (DOMAIN y)
        keys  == {multiply_basis(p[1], p[2]) : p \in pairs}
    IN  [kl \in keys |->
            LET last == CHOOSE p \in pairs : multiply_basis(p[1], p[2]) = kl
            IN  x[last[1]] * y[last[2]]]

multiply_rs_rs(x, y) ==
    LET pairs == (DOMAIN x) \X (DOMAIN y)
        prod  == [p \in pairs |-> x[p[1]] * y[p[2]]]
        keys  == {multiply_basis(p[1], p[2]) : p \in pairs}
    IN  [kl \in keys |->
            SumOver({p \in pairs : multiply_basis(p[1], p[2]) = kl}, prod)]

----------------------------------------------------------------------------
(* Dense arrays (np.ndarray).  A rank-1 array holds data[t], a rank-2      *)
(* array data[t][c], both indexed from 0; other ranks carry no data the    *)
(* code under model ever reads.                                            *)

Vector(n, g) == [ndim |-> 1, shape |-> <<n>>, data |-> g]

Matrix2(R, C, g) == [ndim |-> 2, shape |-> <<R, C>>, data |-> g]

\* np.zeros((R, C))
Zeros(R, C) == Matrix2(R, C, [t \in 0 .. R - 1 |-> [c \in 0 .. C - 1 |-> 0]])

\* A[:, np.newaxis]: a length-n vector as an n x 1 matrix.
NewAxis(v) ==
    Matrix2(v.shape[1], 1, [t \in 0 .. v.shape[1] - 1 |-> [c \in {0} |-> v.data[t]]])

\* M[:, 0]: the first column of a matrix, as a vector.
FirstColumn(M) ==
    Vector(M.shape[1], [t \in 0 .. M.shape[1] - 1 |-> M.data[t][0]])

\* ndarray.T: reverses the axes; a rank-0 or rank-1 array is its own transpose.
ArrayT(a) ==
    CASE a.ndim = 2 ->
            Matrix2(a.shape[2], a.shape[1],
                    [t \in 0 .. a.shape[2] - 1 |->
                        [c \in 0 .. a.shape[1] - 1 |-> a.data[c][t]]])
      [] a.ndim = 3 ->
            [ndim |-> 3, shape |-> <<a.shape[3], a.shape[2], a.shape[1]>>, data |-> a.data]
      [] OTHER -> a

\* What an operation hands back: an array, a SimpleSparse, NotImplemented, or
\* an exception raised to the caller.
ArrayResult(a) == [kind |-> "array", value |-> a]

SparseResult(e) == [kind |-> "sparse", elements |-> e]

NotImplemented == [kind |-> "NotImplemented"]

Raised(e) == [kind |-> "error", error |-> e]

\* Python's binary-operator protocol for SimpleSparse (op) ndarray: when the
\* SimpleSparse method returns NotImplemented, no reflected method of the
\* ndarray accepts a SimpleSparse and the expression raises.
BinaryOp(r) == IF r.kind = "NotImplemented" THEN Raised("TypeError") ELSE r

----------------------------------------------------------------------------
(* SimpleSparse.__add__, dense branch, simple_block.py 257-271, and        *)
(* SimpleSparse.matrix, 186-188.                                           *)

\* An index of a[start:stop:step] for a of length n and step > 0, as Python
\* resolves the bounds: a negative bound counts from the end, and both are
\* clamped to 0 .. n.
PyBound(x, n) == IF x < 0 THEN Max(x + n, 0) ELSE Min(x, n)

SliceIndices(start, stop, step, n) ==
    {idx \in 0 .. n - 1 :
        /\ idx >= PyBound(start, n)
        /\ idx < PyBound(stop, n)
        /\ (idx - PyBound(start, n)) % step = 0}

\* The flat indices one key (i, m) adds its coefficient to (lines 267-270); an
\* omitted stop is the length of the flat array.
KeySlice(key, Tn) ==
    LET i == key[1]
        m == key[2]
    IN  IF i < 0
        THEN SliceIndices(Tn * (-i) + (Tn + 1) * m, Tn * Tn, Tn + 1, Tn * Tn)
        ELSE SliceIndices(i + (Tn + 1) * m, (Tn - i) * Tn, Tn + 1, Tn * Tn)

\* The loop of lines 266-270 over the keys still to be added to flat.
RECURSIVE AddDiagonals(_, _, _, _)
AddDiagonals(flat, e, keys, Tn) ==
    IF keys = {} THEN flat
    ELSE LET key == CHOOSE q \in keys : TRUE
             sl  == KeySlice(key, Tn)
         IN  AddDiagonals([idx \in DOMAIN flat |->
                              IF idx \in sl THEN flat[idx] + e[key] ELSE flat[idx]],
                          e, keys \ {key}, Tn)

\* self + A for an ndarray A.
add_dense(e, a) ==
    IF a.ndim # 2 \/ a.shape[1] # a.shape[2] THEN NotImplemented
    ELSE LET Tn   == a.shape[1]
             flat == [idx \in 0 .. Tn * Tn - 1 |-> a.data[idx \div Tn][idx % Tn]]
             sum  == AddDiagonals(flat, e, DOMAIN e, Tn)
         IN  ArrayResult(Matrix2(Tn, Tn,
                 [t \in 0 .. Tn - 1 |-> [c \in 0 .. Tn - 1 |-> sum[t * Tn + c]]]))

\* matrix(T): self + np.zeros((T, T))
matrix(e, Tn) == BinaryOp(add_dense(e, Zeros(Tn, Tn)))

----------------------------------------------------------------------------
(* multiply_rs_matrix, simple_block.py 341-372, SimpleSparse.array,        *)
(* 190-201, __matmul__, 223-237, T, 212-215 and __rmatmul__, 239-242.      *)

\* The rows t that key (i, m) writes to when the operand has Tn rows.
KeyRows(key, Tn) ==
    LET i == key[1]
        m == key[2]
    IN  IF i = 0 THEN {t \in 0 .. Tn - 1 : t >= m}
        ELSE IF i > 0 THEN {t \in 0 .. Tn - 1 : t >= m /\ t < Tn - i}
        ELSE {t \in 0 .. Tn - 1 : t >= m - i}

multiply_rs_matrix(e, a) ==
    LET Tn == a.shape[1]
        Sn == a.shape[2]
    IN  Matrix2(Tn, Sn,
            [t \in 0 .. Tn - 1 |-> [c \in 0 .. Sn - 1 |->
                SumOver(DOMAIN e,
                        [key \in DOMAIN e |->
                            IF t \in KeyRows(key, Tn)
                            THEN e[key] * a.data[t + key[1]][c]
                            ELSE 0])]])

\* SimpleSparse.T
TransposeSparse(e) ==
    [im \in {<<-k[1], k[2]>> : k \in DOMAIN e} |-> e[<<-im[1], im[2]>>]]

\* A shape test like the one of __add__: only square matrices accepted.
matmul_dense_SquareOnly(e, a) ==
    IF DOMAIN e = {} THEN Raised("ValueError")
    ELSE IF a.ndim = 2
         THEN IF a.shape[1] # a.shape[2] THEN NotImplemented
              ELSE ArrayResult(multiply_rs_matrix(e, a))
    ELSE IF a.ndim = 1 THEN ArrayResult(FirstColumn(multiply_rs_matrix(e, NewAxis(a))))
    ELSE NotImplemented

\* self @ A for an ndarray A.  array() unpacks zip(*elements.items()) into two
\* names first, which raises ValueError for an empty dict.
matmul_dense(e, a) ==
    IF DOMAIN e = {} THEN Raised("ValueError")
    ELSE IF a.ndim = 2 THEN ArrayResult(multiply_rs_matrix(e, a))
    ELSE IF a.ndim = 1 THEN ArrayResult(FirstColumn(multiply_rs_matrix(e, NewAxis(a))))
    ELSE NotImplemented

\* A @ self: (self.T @ A.T).T
rmatmul_dense(e, a) ==
    LET r == BinaryOp(matmul_dense(TransposeSparse(e), ArrayT(a)))
    IN  IF r.kind = "array" THEN ArrayResult(ArrayT(r.value)) ELSE r

----------------------------------------------------------------------------
(* SimpleSparse.__add__, sparse branch, simple_block.py 245-256, and       *)
(* __eq__, 300-301.  Coefficients of the operands of + are counted in      *)
(* units of 5E-15, so that the threshold 1E-14 of line 252 is 2 and a      *)
(* coefficient of 1 is a nonzero one below it.                             *)

Eps == 2

\* A slip in the safeguard: the incoming coefficient x is tested, not the sum.
add_sparse_TestsIncoming(x, y) ==
    LET both == DOMAIN x \cap DOMAIN y
        kept == (DOMAIN x \cup DOMAIN y) \ {im \in both : Abs(y[im]) < Eps}
    IN  [im \in kept |->
            IF im \in both THEN x[im] + y[im]
            ELSE IF im \in DOMAIN x THEN x[im]
            ELSE y[im]]

\* self + A for a SimpleSparse A: x is self.elements, y is A.elements.  A key
\* of both is summed and deleted when the sum is below the threshold; a key of
\* one operand alone is copied as it is.
add_sparse(x, y) ==
    LET both == DOMAIN x \cap DOMAIN y
        kept == (DOMAIN x \cup DOMAIN y) \ {im \in both : Abs(x[im] + y[im]) < Eps}
    IN  [im \in kept |->
            IF im \in both THEN x[im] + y[im]
            ELSE IF im \in DOMAIN x THEN x[im]
            ELSE y[im]]

\* self == s: the elements dicts compare equal.
sparse_eq(x, y) == x = y

----------------------------------------------------------------------------
(* The variables of jac while no jac call is under way.                    *)

JacIdle ==
    /\ f = NoVal
    /\ ss = EmptyDict
    /\ shock_list = <<>>
    /\ h = 0
    /\ pc = "idle"
    /\ kpos = 0
    /\ x_ss_new = EmptyDict
    /\ myset = {}
    /\ todo = {}
    /\ raw_derivatives = EmptyDict
    /\ J = EmptyDict

\* The variables of the operator algebra while jac runs.
AlgIdle ==
    /\ t1 = <<0, 0>>
    /\ t2 = <<0, 0>>
    /\ t3 = <<0, 0>>
    /\ s1 = EmptyDict
    /\ s2 = EmptyDict
    /\ A = NoVal
    /\ op = "none"
    /\ out = NoVal
    /\ out2 = NoVal

\* The variables of the expressions of Part 3 and of td while neither runs.
ValIdle ==
    /\ left = NoVal
    /\ right = NoVal
    /\ offset = 0
    /\ opname = "none"
    /\ kwargs = EmptyDict
    /\ res = NoVal

\* No object of the algebra is tracked by identity.
ObjIdle ==
    /\ heap = <<>>
    /\ call = NoVal

----------------------------------------------------------------------------
(* The basis specification: three keys are drawn and composed.             *)

\* Largest |offset| and largest missing count of the keys drawn.
MaxOffset == 2

MaxMissing == 2

BasisKeys == (-MaxOffset .. MaxOffset) \X (0 .. MaxMissing)

InitBasis ==
    /\ t1 \in BasisKeys
    /\ t2 \in BasisKeys
    /\ t3 \in BasisKeys
    /\ s1 = EmptyDict
    /\ s2 = EmptyDict
    /\ T = 0
    /\ A = NoVal
    /\ op = "none"
    /\ out = NoVal
    /\ out2 = NoVal
    /\ JacIdle
    /\ ValIdle
    /\ ObjIdle

\* kl = multiply_basis(t1, t2)
MultiplyBasis ==
    /\ op = "none"
    /\ out' = multiply_basis(t1, t2)
    /\ op' = "basis"
    /\ UNCHANGED <<t1, t2, t3, s1, s2, T, A, out2>>
    /\ UNCHANGED <<jacVars, valVars, objVars>>

\* multiply_basis(multiply_basis(t1, t2), t3)
ComposeLeft ==
    /\ op = "basis"
    /\ out' = multiply_basis(out, t3)
    /\ op' = "left"
    /\ UNCHANGED <<t1, t2, t3, s1, s2, T, A, out2>>
    /\ UNCHANGED <<jacVars, valVars, objVars>>

\* multiply_basis(t1, multiply_basis(t2, t3))
ComposeRight ==
    /\ op = "left"
    /\ out2' = multiply_basis(t1, multiply_basis(t2, t3))
    /\ op' = "both"
    /\ UNCHANGED <<t1, t2, t3, s1, s2, T, A, out>>
    /\ UNCHANGED <<jacVars, valVars, objVars>>

NextBasis == MultiplyBasis \/ ComposeLeft \/ ComposeRight

SpecBasis == InitBasis /\ [][NextBasis]_vars

----------------------------------------------------------------------------
(* The shift operator of a key, as the claim on multiply_basis states it:  *)
(* key (a, b) is the 0/1 matrix over indices 0, 1, 2, ... with a 1 at      *)
(* (t, t + a) exactly when t >= b + max(0, -a).                            *)

ShiftEntry(key, t, u) ==
    /\ u = t + key[1]
    /\ t >= key[2] + Max(0, -key[1])

\* Rows and columns compared; every threshold l + max(0, -k) lies below Window.
Window == MaxMissing + 3 * MaxOffset + 1

\* Entry (t, u) of the matrix product: the inner index runs as far as a row
\* of the left factor can reach.
ShiftProductEntry(ka, kb, t, u) ==
    \E s \in 0 .. (Window + MaxOffset) : ShiftEntry(ka, t, s) /\ ShiftEntry(kb, s, u)

\* The five-case rule as the contract words it.
ContractL(i, m, j, n) ==
    CASE i >= 0 /\ j >= 0              -> Max(m, n - i)
      [] i >= 0 /\ j < 0 /\ i + j >= 0 -> Max(m, n - (i + j))
      [] i >= 0 /\ j < 0 /\ i + j < 0  -> Max(m + (i + j), n)
      [] i < 0 /\ j <= 0               -> Max(m + j, n)
      [] i < 0 /\ j > 0                -> Max(m, n) + Min(-i, j)

(* C1: for basis keys (i,m), (j,n), multiply_basis returns (k,l) with      *)
(* k = i+j, l >= 0 given by the five-case rule, and the shift operator     *)
(* (k,l) has a 1 at (t,u) exactly where the matrix product of the shift    *)
(* operators (i,m) and (j,n) has one.                                      *)
C1_MultiplyBasisIsComposition ==
    op = "basis" =>
        /\ out[1] = t1[1] + t2[1]
        /\ out[2] >= 0
        /\ out[2] = ContractL(t1[1], t1[2], t2[1], t2[2])
        /\ \A t \in 0 .. Window : \A u \in 0 .. Window :
               ShiftEntry(out, t, u) <=> ShiftProductEntry(t1, t2, t, u)

\* A backward shift met by a longer forward shift: the last branch of the rule.
C1_Witness ==
    /\ op = "basis"
    /\ t1 = <<-1, 1>>
    /\ t2 = <<2, 0>>
    /\ out = <<1, 2>>

\* The single-key-pair operators built from the drawn keys, for the key sets
\* of operator products.
PairOp(ka, kb) == [im \in {ka, kb} |-> 1]

(* C3: composition of basis keys is associative,                           *)
(* multiply_basis(multiply_basis(a,b),c) = multiply_basis(a,               *)
(* multiply_basis(b,c)), and (s1 @ s2) @ s3 and s1 @ (s2 @ s3) have the    *)
(* same key set.                                                           *)
C3_Associative ==
    op = "both" =>
        /\ out = out2
        /\ DOMAIN multiply_rs_rs(multiply_rs_rs(PairOp(t1, t2), PairOp(t2, t3)), PairOp(t3, t1))
             = DOMAIN multiply_rs_rs(PairOp(t1, t2), multiply_rs_rs(PairOp(t2, t3), PairOp(t3, t1)))

\* Three keys of mixed signs whose two bracketings both give (1, 3).
C3_Witness ==
    /\ op = "both"
    /\ t1 = <<-2, 1>>
    /\ t2 = <<2, 0>>
    /\ t3 = <<1, 2>>
    /\ out = out2

----------------------------------------------------------------------------
(* The dense specification: one SimpleSparse, a horizon and an ndarray are *)
(* drawn; the operator is materialized, or composed with the array from    *)
(* either side.                                                            *)

\* Largest |offset| of the keys drawn, and largest horizon.
DenseMaxOffset == 4

MaxT == 3

DenseKeys == (-DenseMaxOffset .. DenseMaxOffset) \X {0, 1}

\* Up to two keys, with the coefficients of the Toeplitz example.
DenseOperators == OperatorsOver(DenseKeys, {-1, 2}, 2)

\* 1 + t * C + c at (t, c): every cell differs.
Ramp(R, C) == Matrix2(R, C, [t \in 0 .. R - 1 |-> [c \in 0 .. C - 1 |-> 1 + t * C + c]])

\* The ndarrays drawn for horizon Tn: every 0/1 vector of length Tn, a square
\* and two non-square matrices, a rank-0 and a rank-3 array.
DenseOperands(Tn) ==
    {Vector(Tn, g) : g \in [0 .. Tn - 1 -> {0, 1}]}
    \cup {Ramp(Tn, Tn), Ramp(Tn, Tn + 1), Ramp(Tn + 1, Tn)}
    \cup {[ndim |-> 0, shape |-> <<>>, data |-> 1],
          [ndim |-> 3, shape |-> <<1, 1, 1>>, data |-> 1]}

InitDense ==
    /\ t1 = <<0, 0>>
    /\ t2 = <<0, 0>>
    /\ t3 = <<0, 0>>
    /\ s1 \in DenseOperators
    /\ s2 = EmptyDict
    /\ T \in 1 .. MaxT
    /\ A \in DenseOperands(T)
    /\ op = "none"
    /\ out = NoVal
    /\ out2 = NoVal
    /\ JacIdle
    /\ ValIdle
    /\ ObjIdle

\* The orders in which a dict can hold the keys of e: the order of insertion,
\* which the elements function does not record.
KeyOrders(e) ==
    {q \in [1 .. Cardinality(DOMAIN e) -> DOMAIN e] :
        \A m, n \in DOMAIN q : m # n => q[m] # q[n]}

\* SimpleSparse.asymptotic_time_invariant, lines 203-210, with array(),
\* 190-201, for a dict holding its keys in the given order: the assignment
\* v[-indices[:, 0] + tau - 1] = xs leaves at a position written more than
\* once the last value written.
asymptotic_time_invariant(e, order) ==
    IF DOMAIN e = {} THEN Raised("ValueError")
    ELSE LET xs  == [n \in DOMAIN order |-> e[order[n]]]
             far == CHOOSE i \in {Abs(k[1]) : k \in DOMAIN e} :
                        \A k \in DOMAIN e : Abs(k[1]) <= i
             tau == far + 1
         IN  ArrayResult(Vector(2 * tau - 1,
                 [p \in 0 .. 2 * tau - 2 |->
                     LET hits == {n \in DOMAIN order : -order[n][1] + tau - 1 = p}
                     IN  IF hits = {} THEN 0
                         ELSE xs[CHOOSE n \in hits : \A n2 \in hits : n2 <= n]]))

\* s1.asymptotic_time_invariant
Asymptotic ==
    /\ op = "none"
    /\ \E order \in KeyOrders(s1) : out' = asymptotic_time_invariant(s1, order)
    /\ op' = "asymptotic"
    /\ UNCHANGED <<t1, t2, t3, s1, s2, T, A, out2>>
    /\ UNCHANGED <<jacVars, valVars, objVars>>

\* s1.matrix(T)
Materialize ==
    /\ op = "none"
    /\ out' = matrix(s1, T)
    /\ op' = "matrix"
    /\ UNCHANGED <<t1, t2, t3, s1, s2, T, A, out2>>
    /\ UNCHANGED <<jacVars, valVars, objVars>>

\* s1 @ A
MatMulDense ==
    /\ op = "none"
    /\ out' = BinaryOp(matmul_dense(s1, A))
    /\ op' = "matmul"
    /\ UNCHANGED <<t1, t2, t3, s1, s2, T, A, out2>>
    /\ UNCHANGED <<jacVars, valVars, objVars>>

\* A @ s1
RMatMulDense ==
    /\ op = "none"
    /\ out' = rmatmul_dense(s1, A)
    /\ op' = "rmatmul"
    /\ UNCHANGED <<t1, t2, t3, s1, s2, T, A, out2>>
    /\ UNCHANGED <<jacVars, valVars, objVars>>

NextDense == Materialize \/ MatMulDense \/ RMatMulDense \/ Asymptotic

SpecDense == InitDense /\ [][NextDense]_vars

\* The ordinary product of a matrix and a vector.
MatVec(M, v) ==
    Vector(M.shape[1],
           [t \in 0 .. M.shape[1] - 1 |->
               SumOver(0 .. M.shape[2] - 1,
                       [c \in 0 .. M.shape[2] - 1 |-> M.data[t][c] * v.data[c]])])

\* Cell (t, u) of the materialization as the data model defines it: the sum
\* of the coefficients of the keys whose diagonal passes through (t, u) after
\* its first m entries.
DiagonalSum(e, t, u) ==
    SumOver({k \in DOMAIN e : u - t = k[1] /\ t >= k[2] + Max(0, -k[1])}, e)

(* C5: for every horizon T, Sparse Operator s (any offsets, any missing    *)
(* counts, also one with no keys left) and length-T vector v, the          *)
(* matrix-path result s.matrix(T) . v equals the sparse-path result s @ v. *)
C5_DenseSparseAgree ==
    (op = "matmul" /\ A.ndim = 1) =>
        /\ out.kind = "array"
        /\ out.value = MatVec(matrix(s1, T).value, A)

(* C6: cell (t,u) of matrix(T) is the sum of the coefficients x over the   *)
(* keys (i,m) with u - t = i and t >= m + max(0,-i), and 0 when no key     *)
(* qualifies; a key with |i| >= T contributes to no cell.                  *)
C6_MatrixPlacesDiagonals ==
    op = "matrix" =>
        /\ out.kind = "array"
        /\ out.value.shape = <<T, T>>
        /\ \A t \in 0 .. T - 1 : \A u \in 0 .. T - 1 :
               out.value.data[t][u] = DiagonalSum(s1, t, u)

(* C9, as amended: composing with a dense operand of rank other than 1 or *)
(* 2 ends in an error and returns no numeric result; a rank-1 vector or a  *)
(* rank-2 matrix of any shape, square or not, returns a result of the      *)
(* operand's shape when the operator has at least one key, and ends in an  *)
(* error when it has none.                                                 *)
C9_RankDecidesOutcome ==
    op \in {"matmul", "rmatmul"} =>
        IF DOMAIN s1 = {} \/ A.ndim \notin {1, 2}
        THEN out.kind = "error"
        ELSE out.kind = "array" /\ out.value.ndim = A.ndim /\ out.value.shape = A.shape

\* A 3 x 4 matrix composed from the left comes back 3 x 4.
C9_Witness ==
    /\ op = "matmul"
    /\ DOMAIN s1 = {<<1, 0>>, <<-1, 1>>}
    /\ A.ndim = 2
    /\ A.shape = <<3, 4>>
    /\ out.kind = "array"
    /\ out.value.shape = <<3, 4>>

(* C9 as first stated, for operators with at least one key: a non-square   *)
(* rank-2 operand, or one of rank other than 1 or 2, ends in an error and  *)
(* never in a numeric result; vectors and square matrices return a result  *)
(* of the operand's shape.                                                 *)
C9_NonSquareRejected ==
    (op \in {"matmul", "rmatmul"} /\ DOMAIN s1 # {}) =>
        IF A.ndim \notin {1, 2} \/ (A.ndim = 2 /\ A.shape[1] # A.shape[2])
        THEN out.kind = "error"
        ELSE out.kind = "array" /\ out.value.shape = A.shape

(* C20: for a non-empty operator with tau = max |offset| + 1 over its      *)
(* keys, asymptotic_time_invariant is built from a vector of length        *)
(* 2 * tau - 1 whose entry at position tau - 1 - i is the sum of the       *)
(* coefficients of all keys with offset i, whatever their missing count,   *)
(* and whose other entries are 0.                                          *)
C20_AsymptoticSumsDiagonals ==
    (op = "asymptotic" /\ DOMAIN s1 # {}) =>
        LET tau == 1 + CHOOSE i \in {Abs(k[1]) : k \in DOMAIN s1} :
                          \A k \in DOMAIN s1 : Abs(k[1]) <= i
        IN  /\ out.kind = "array"
            /\ out.value.ndim = 1
            /\ out.value.shape = <<2 * tau - 1>>
            /\ \A p \in 0 .. 2 * tau - 2 :
                   out.value.data[p] =
                       SumOver({k \in DOMAIN s1 : k[1] = tau - 1 - p}, s1)

----------------------------------------------------------------------------
(* The composition specification: two SimpleSparse, a horizon and a dense  *)
(* operand with that many rows are drawn; the operators are composed, the  *)
(* product is applied to the operand, and the operators are applied to it  *)
(* one after the other.                                                    *)

ComposeKeys == (-1 .. 1) \X {0, 1}

\* Up to two keys; the coefficient 1 makes {(0,0): 1} one of the operators.
ComposeOperators == OperatorsOver(ComposeKeys, {1, -2}, 2)

\* np.eye(Tn)
Eye(Tn) ==
    Matrix2(Tn, Tn, [t \in 0 .. Tn - 1 |-> [c \in 0 .. Tn - 1 |-> IF t = c THEN 1 ELSE 0]])

\* The operands drawn: the identity matrix, whose columns are all the unit
\* vectors, and the vector 1, 2, ..., Tn.
ComposeOperands(Tn) == {Eye(Tn), Vector(Tn, [t \in 0 .. Tn - 1 |-> t + 1])}

InitCompose ==
    /\ t1 = <<0, 0>>
    /\ t2 = <<0, 0>>
    /\ t3 = <<0, 0>>
    /\ s1 \in ComposeOperators
    /\ s2 \in ComposeOperators
    /\ T \in 1 .. MaxT
    /\ A \in ComposeOperands(T)
    /\ op = "none"
    /\ out = NoVal
    /\ out2 = NoVal
    /\ JacIdle
    /\ ValIdle
    /\ ObjIdle

\* s1 @ s2
ComposeSparse ==
    /\ op = "none"
    /\ out' = SparseResult(multiply_rs_rs(s1, s2))
    /\ op' = "compose"
    /\ UNCHANGED <<t1, t2, t3, s1, s2, T, A, out2>>
    /\ UNCHANGED <<jacVars, valVars, objVars>>

\* (s1 @ s2) @ A
ApplyProduct ==
    /\ op = "compose"
    /\ out' = BinaryOp(matmul_dense(out.elements, A))
    /\ op' = "applied"
    /\ UNCHANGED <<t1, t2, t3, s1, s2, T, A, out2>>
    /\ UNCHANGED <<jacVars, valVars, objVars>>

\* s1 @ (s2 @ A): an exception of the inner product ends the expression.
ApplyInTurn ==
    /\ op = "applied"
    /\ out2' = LET inner == BinaryOp(matmul_dense(s2, A))
               IN  IF inner.kind = "array"
                   THEN BinaryOp(matmul_dense(s1, inner.value))
                   ELSE inner
    /\ op' = "both"
    /\ UNCHANGED <<t1, t2, t3, s1, s2, T, A, out>>
    /\ UNCHANGED <<jacVars, valVars, objVars>>

NextCompose == ComposeSparse \/ ApplyProduct \/ ApplyInTurn

SpecCompose == InitCompose /\ [][NextCompose]_vars

\* The ordinary product of two matrices.
MatMat(M, N) ==
    Matrix2(M.shape[1], N.shape[2],
            [t \in 0 .. M.shape[1] - 1 |-> [c \in 0 .. N.shape[2] - 1 |->
                SumOver(0 .. M.shape[2] - 1,
                        [k \in 0 .. M.shape[2] - 1 |-> M.data[t][k] * N.data[k][c]])]])

\* The offsets of the keys of an operator.
Offsets(e) == {k[1] : k \in DOMAIN e}

\* No read ahead on the left, or no read back on the right: the rows of the
\* right factor that the left factor reads all lie inside the horizon.
NoLostRows(x, y) ==
    \/ \A i \in Offsets(x) : i <= 0
    \/ \A j \in Offsets(y) : j >= 0

(* C2, as amended: for every horizon T, every s1, s2 in which no key of s1 *)
(* has a positive offset or no key of s2 has a negative offset, and every  *)
(* dense operand v with T rows, (s1 @ s2) @ v and s1 @ (s2 @ v) give the   *)
(* same result (both raise when an operator has no keys); and then         *)
(* (s1 @ s2).matrix(T) is the matrix product s1.matrix(T) . s2.matrix(T)   *)
(* whenever no offset of s1, s2 or s1 @ s2 exceeds T.                      *)
C2_ComposeAgreesWithoutLostRows ==
    (op = "both" /\ NoLostRows(s1, s2)) =>
        /\ out = out2
        /\ (\A i \in Offsets(s1) \cup Offsets(s2) \cup Offsets(multiply_rs_rs(s1, s2)) : i <= T)
              => matrix(multiply_rs_rs(s1, s2), T).value
                   = MatMat(matrix(s1, T).value, matrix(s2, T).value)

\* Two lags with missing entries composed and applied to the identity.
C2_Witness ==
    /\ op = "both"
    /\ T = 3
    /\ A = Eye(3)
    /\ s1 = [im \in {<<-1, 0>>, <<0, 1>>} |-> -2]
    /\ s2 = [im \in {<<-1, 1>>, <<1, 0>>} |-> 1]
    /\ out.kind = "array"
    /\ out = out2

(* C2 as first stated: for every horizon T and every s1, s2,               *)
(* (s1 @ s2).matrix(T) equals the T x T matrix product                     *)
(* s1.matrix(T) . s2.matrix(T).                                            *)
C2_ComposeIsMatrixProduct ==
    op = "compose" =>
        matrix(out.elements, T).value = MatMat(matrix(s1, T).value, matrix(s2, T).value)

\* The operator {(0,0): 1}.
Identity == [im \in {<<0, 0>>} |-> 1]

(* C4: {(0,0): 1} is a two-sided identity of sparse composition: I @ s and *)
(* s @ I have exactly the key -> coefficient mapping of s.                 *)
C4_IdentityTwoSided ==
    op = "compose" =>
        /\ s2 = Identity => sparse_eq(out.elements, s1)
        /\ s1 = Identity => sparse_eq(out.elements, s2)

\* A two-key operator composed with the identity on its right.
C4_Witness ==
    /\ op = "compose"
    /\ s2 = Identity
    /\ s1 = (<<-1, 1>> :> -2 @@ <<1, 0>> :> 1)
    /\ out.elements = s1

----------------------------------------------------------------------------
(* The addition specification: two SimpleSparse are drawn and added in     *)
(* both orders.                                                            *)

\* Largest coefficient magnitude drawn, in the units of Eps.
MaxCoef == 2

AddKeys == {<<0, 0>>, <<1, 0>>, <<-1, 1>>}

AddOperators == OperatorsOver(AddKeys, -MaxCoef .. MaxCoef, 2)

InitAdd ==
    /\ t1 = <<0, 0>>
    /\ t2 = <<0, 0>>
    /\ t3 = <<0, 0>>
    /\ s1 \in AddOperators
    /\ s2 \in AddOperators
    /\ T = 0
    /\ A = NoVal
    /\ op = "none"
    /\ out = NoVal
    /\ out2 = NoVal
    /\ JacIdle
    /\ ValIdle
    /\ ObjIdle

\* s1 + s2
AddSparse ==
    /\ op = "none"
    /\ out' = SparseResult(add_sparse(s1, s2))
    /\ op' = "add"
    /\ UNCHANGED <<t1, t2, t3, s1, s2, T, A, out2>>
    /\ UNCHANGED <<jacVars, valVars, objVars>>

\* s2 + s1
AddSparseSwapped ==
    /\ op = "add"
    /\ out2' = SparseResult(add_sparse(s2, s1))
    /\ op' = "both"
    /\ UNCHANGED <<t1, t2, t3, s1, s2, T, A, out>>
    /\ UNCHANGED <<jacVars, valVars, objVars>>

NextAdd == AddSparse \/ AddSparseSwapped

SpecAdd == InitAdd /\ [][NextAdd]_vars

(* C7, as amended: the keys of a + b are the keys of either operand except *)
(* the keys of both whose summed coefficient has magnitude below 1e-14; a  *)
(* key of both carries the sum, of magnitude at least 1e-14; a key of one  *)
(* operand alone carries that operand's coefficient unchanged, however     *)
(* small.                                                                  *)
C7_AddDropsSmallSums ==
    op = "add" =>
        LET r    == out.elements
            both == DOMAIN s1 \cap DOMAIN s2
        IN  /\ DOMAIN r = (DOMAIN s1 \cup DOMAIN s2)
                            \ {im \in both : Abs(s1[im] + s2[im]) < Eps}
            /\ \A im \in DOMAIN r \cap both : r[im] = s1[im] + s2[im] /\ Abs(r[im]) >= Eps
            /\ \A im \in DOMAIN r \ DOMAIN s2 : r[im] = s1[im]
            /\ \A im \in DOMAIN r \ DOMAIN s1 : r[im] = s2[im]

\* One key cancels to a sum below the threshold and goes, one key of the left
\* operand alone stays with its small coefficient.
C7_Witness ==
    /\ op = "add"
    /\ s1 = (<<0, 0>> :> 2 @@ <<1, 0>> :> 1)
    /\ s2 = (<<0, 0>> :> -1)
    /\ out.elements = (<<1, 0>> :> 1)

(* C7 as first stated: the keys of a + b are keys of the operands,         *)
(* overlapping keys carry the sum, and no key of the result has a          *)
(* coefficient of magnitude below 1e-14.                                   *)
C7_NoSmallCoefficient ==
    op = "add" =>
        LET r == out.elements
        IN  /\ DOMAIN r \subseteq DOMAIN s1 \cup DOMAIN s2
            /\ \A im \in DOMAIN r \cap DOMAIN s1 \cap DOMAIN s2 : r[im] = s1[im] + s2[im]
            /\ \A im \in DOMAIN r : Abs(r[im]) >= Eps

(* C8: addition is commutative, a + b == b + a under the exact             *)
(* key -> coefficient equality, also when a summed coefficient falls below *)
(* the threshold and is removed.                                           *)
C8_AddCommutes ==
    op = "both" => sparse_eq(out.elements, out2.elements)

\* A sum below the threshold is removed in both orders.
C8_Witness ==
    /\ op = "both"
    /\ s1 = (<<0, 0>> :> 2 @@ <<1, 0>> :> 1)
    /\ s2 = (<<0, 0>> :> -1 @@ <<-1, 1>> :> 2)
    /\ out.elements = (<<1, 0>> :> 1 @@ <<-1, 1>> :> 2)
    /\ out2.elements = out.elements

----------------------------------------------------------------------------
(* Floating-point arithmetic.  A float is the integer n standing for       *)
(* n * 2^-FracBits; the format keeps Precision significant bits, and       *)
(* values below 2^Precision units lie on the grid of units exactly, as     *)
(* subnormal numbers do.                                                   *)

\* Binary digits after the point of the grid.
FracBits == 4

\* Significant bits of the format (53 for a Python float).
Precision == 6

\* The float 1.0.
One == 2 ^ FracBits

\* d * 2^k for the least k with a < d * 2^k * 2^Precision: the spacing of the
\* format at a / d, in units of 1 / d.
RECURSIVE Spacing(_, _)
Spacing(a, d) == IF a < d * 2 ^ Precision THEN d ELSE Spacing(a, 2 * d)

\* a / d rounded to the nearest multiple of D / d, ties to the even multiple.
RoundToSpacing(a, d, D) ==
    (IF 2 * (a % D) > D \/ (2 * (a % D) = D /\ (a \div D) % 2 = 1)
     THEN a \div D + 1 ELSE a \div D) * (D \div d)

\* a / d (a >= 0, d > 0) rounded to the nearest float, ties to even.
RoundMagnitude(a, d) == RoundToSpacing(a, d, Spacing(a, d))

\* n / d (d > 0) rounded to the nearest float.
RoundRat(n, d) == (IF n < 0 THEN -1 ELSE 1) * RoundMagnitude(IF n < 0 THEN -n ELSE n, d)

\* float.__add__, __sub__, __mul__, __truediv__ (y # 0)
FAdd(x, y) == RoundRat(x + y, 1)

FSub(x, y) == RoundRat(x - y, 1)

FMul(x, y) == RoundRat(x * y, One)

FDiv(x, y) == RoundRat(IF y < 0 THEN -(x * One) ELSE x * One, IF y < 0 THEN -y ELSE y)

----------------------------------------------------------------------------
(* Part 3 of simple_block.py: the values jac binds the inputs of f to.     *)
(* Each is a float ('float' below is the value it has when used in         *)
(* arithmetic without being called) that answers k(index).                 *)

\* Ignore(value), lines 387-394
Ignore(value) == [kind |-> "Ignore", float |-> value]

\* Reporter(value), lines 435-444; its myset is the variable myset
Reporter(value) == [kind |-> "Reporter", float |-> value]

\* Perturb(value, h, index): __new__ and __init__, lines 451-459
Perturb(value, hh, index) ==
    [kind |-> "Perturb",
     float |-> IF index = 0 THEN FAdd(value, hh) ELSE value,
     h |-> hh,
     index |-> index]

\* x(index): the __call__ of each class (394, 442-444, 461-471)
Call(x, index) ==
    CASE x.kind = "Ignore"   -> x.float
      [] x.kind = "Reporter" -> x.float
      [] x.kind = "Perturb"  ->
            IF x.index = 0
            THEN IF index = 0 THEN x.float ELSE FSub(x.float, x.h)
            ELSE IF x.index = index THEN FAdd(x.float, x.h) ELSE x.float

----------------------------------------------------------------------------
(* Block functions.  f is a record of its input_list, its output_list and, *)
(* for each output, the expression computing it: a sequence of terms, each *)
(* an integer literal c times a product of reads of inputs, evaluated as   *)
(* c * (r1 * (r2 * ...)) and summed as t1 + (t2 + ...).  A read is the     *)
(* bare name of an input (call = FALSE) or a call name(at).                *)

Bare(name) == [name |-> name, at |-> 0, call |-> FALSE]

At(name, i) == [name |-> name, at |-> i, call |-> TRUE]

Term(c, reads) == [c |-> c, reads |-> reads]

\* y = a * b
F_mul ==
    [name |-> "mul", input_list |-> <<"a", "b">>, output_list |-> <<"y">>,
     body |-> [o \in {"y"} |-> <<Term(1, <<Bare("a"), Bare("b")>>)>>]]

\* y = a(-1)
F_lag ==
    [name |-> "lag", input_list |-> <<"a">>, output_list |-> <<"y">>,
     body |-> [o \in {"y"} |-> <<Term(1, <<At("a", -1)>>)>>]]

\* y = a(1) + 2 * a(-1) + b;  z = 3 * b(0)
F_leadlag ==
    [name |-> "leadlag", input_list |-> <<"a", "b">>, output_list |-> <<"y", "z">>,
     body |-> [o \in {"y", "z"} |->
                  IF o = "y"
                  THEN <<Term(1, <<At("a", 1)>>), Term(2, <<At("a", -1)>>), Term(1, <<Bare("b")>>)>>
                  ELSE <<Term(3, <<At("b", 0)>>)>>]]

\* y = a * b(-1);  z = 5
F_const ==
    [name |-> "const", input_list |-> <<"a", "b">>, output_list |-> <<"y", "z">>,
     body |-> [o \in {"y", "z"} |->
                  IF o = "y"
                  THEN <<Term(1, <<Bare("a"), At("b", -1)>>)>>
                  ELSE <<Term(5, <<>>)>>]]

\* y = a(2) + a - a(0) + b(1) * b(-1)
F_cancel ==
    [name |-> "cancel", input_list |-> <<"a", "b">>, output_list |-> <<"y">>,
     body |-> [o \in {"y"} |->
                  <<Term(1, <<At("a", 2)>>), Term(1, <<Bare("a")>>), Term(-1, <<At("a", 0)>>),
                    Term(1, <<At("b", 1), At("b", -1)>>)>>]]

BlockFunctions == {F_mul, F_lag, F_leadlag, F_const, F_cancel}

\* The set of members of a sequence.
Range(q) == {q[n] : n \in DOMAIN q}

\* The value a read has under the bindings bind.
ReadValue(bind, r) == IF r.call THEN Call(bind[r.name], r.at) ELSE bind[r.name].float

RECURSIVE ProductOfReads(_, _)
ProductOfReads(bind, reads) ==
    IF reads = <<>> THEN One
    ELSE FMul(ReadValue(bind, Head(reads)), ProductOfReads(bind, Tail(reads)))

RECURSIVE SumOfTerms(_, _)
SumOfTerms(bind, terms) ==
    IF terms = <<>> THEN 0
    ELSE FAdd(FMul(Head(terms).c * One, ProductOfReads(bind, Head(terms).reads)),
              SumOfTerms(bind, Tail(terms)))

\* utils.make_tuple(self.f(**bind)): the outputs in the order of output_list.
EvalF(fn, bind) ==
    [n \in DOMAIN fn.output_list |-> SumOfTerms(bind, fn.body[fn.output_list[n]])]

\* Every read f makes.
AllReads(fn) ==
    UNION {Range(fn.body[o][n].reads) : <<o, n>> \in
              {<<o2, n2>> \in Range(fn.output_list) \X (1 .. 8) : n2 \in DOMAIN fn.body[o2]}}

\* The offsets f(**bind) adds to the myset of the Reporter among its bindings.
ReportedOffsets(fn, bind) ==
    {r.at : r \in {q \in AllReads(fn) : q.call /\ bind[q.name].kind = "Reporter"}}

----------------------------------------------------------------------------
(* SimpleBlock.jac, simple_block.py 67-142.                                *)

\* SimpleSparse.from_simple_diagonals, 181-184
from_simple_diagonals(d) == [im \in {<<i, 0>> : i \in DOMAIN d} |-> d[im[1]]]

\* A slip in line 128: the one-sided step h instead of 2 * h.
DifferenceQuotient_OneSided(y_up, y_down, hh) == FDiv(FSub(y_up, y_down), hh)

\* (y_up - y_down) / (2 * h), line 128
DifferenceQuotient(y_up, y_down, hh) == FDiv(FSub(y_up, y_down), FMul(2 * One, hh))

\* The steady-state values drawn: 0.0, 2.0, 3.0 and 4.0, the last a power of
\* two where the spacing of the format doubles (as 0.5 is for a Python float).
SteadyStates == {0, 2 * One, 3 * One, 4 * One}

\* The steps h drawn: 0.25 and 0.3125.
Steps == {One \div 4, (5 * One) \div 16}

\* The shock_list arguments for a function: omitted, or a list of distinct inputs.
ShockLists(fn) ==
    {[given |-> FALSE, names |-> <<>>]}
    \cup {[given |-> TRUE, names |-> q] :
            q \in {q2 \in UNION {[1 .. n -> Range(fn.input_list)] : n \in 0 .. Len(fn.input_list)} :
                      \A x, y \in DOMAIN q2 : x # y => q2[x] # q2[y]}}

InitJac ==
    /\ AlgIdle
    /\ ValIdle
    /\ ObjIdle
    /\ T \in {0, 2}
    /\ f \in BlockFunctions
    /\ ss \in [Range(f.input_list) -> SteadyStates]
    /\ shock_list \in ShockLists(f)
    /\ h \in Steps
    /\ pc = "start"
    /\ kpos = 0
    /\ x_ss_new = EmptyDict
    /\ myset = {}
    /\ todo = {}
    /\ raw_derivatives = EmptyDict
    /\ J = EmptyDict

\* Lines 89-97.
JacStart ==
    /\ pc = "start"
    /\ shock_list' = IF shock_list.given THEN shock_list
                     ELSE [shock_list EXCEPT !.names = f.input_list]
    /\ raw_derivatives' = [o \in Range(f.output_list) |-> EmptyDict]
    /\ x_ss_new' = [k \in Range(f.input_list) |-> Ignore(ss[k])]
    /\ kpos' = 1
    /\ pc' = "loop"
    /\ UNCHANGED <<f, ss, h, myset, todo, J>>
    /\ UNCHANGED <<algVars, valVars, objVars>>

\* A slip in line 104: one Reporter, and so one myset, shared by all inputs.
Discover_SharedAccumulator ==
    /\ pc = "loop"
    /\ kpos <= Len(shock_list.names)
    /\ LET k    == shock_list.names[kpos]
           bind == [x_ss_new EXCEPT ![k] = Reporter(ss[k])]
       IN  /\ x_ss_new' = bind
           /\ myset' = myset \cup ReportedOffsets(f, bind) \cup {0}
           /\ todo' = myset \cup ReportedOffsets(f, bind) \cup {0}
    /\ pc' = "perturb"
    /\ UNCHANGED <<f, ss, shock_list, h, kpos, raw_derivatives, J>>
    /\ UNCHANGED <<algVars, valVars, objVars>>

\* Lines 100-110: the discovery pass for the next input k.
Discover ==
    /\ pc = "loop"
    /\ kpos <= Len(shock_list.names)
    /\ LET k    == shock_list.names[kpos]
           bind == [x_ss_new EXCEPT ![k] = Reporter(ss[k])]
       IN  /\ x_ss_new' = bind
           /\ myset' = ReportedOffsets(f, bind) \cup {0}
           /\ todo' = ReportedOffsets(f, bind) \cup {0}
    /\ pc' = "perturb"
    /\ UNCHANGED <<f, ss, shock_list, h, kpos, raw_derivatives, J>>
    /\ UNCHANGED <<algVars, valVars, objVars>>

\* A slip in line 126: the quotient is stored whether or not y_up != y_down.
StoreDerivatives_KeepsZeros(raw, fn, k, i, y_up_all, y_down_all, hh) ==
    [o \in DOMAIN raw |->
        LET n == CHOOSE n2 \in DOMAIN fn.output_list : fn.output_list[n2] = o
            sparsederiv == IF k \in DOMAIN raw[o] THEN raw[o][k] ELSE EmptyDict
            stored == [j \in DOMAIN sparsederiv \cup {i} |->
                          IF j = i
                          THEN FDiv(FSub(y_up_all[n], y_down_all[n]), FMul(2 * One, hh))
                          ELSE sparsederiv[j]]
        IN  [k2 \in DOMAIN raw[o] \cup {k} |-> IF k2 = k THEN stored ELSE raw[o][k2]]]

\* raw_derivatives after lines 125-128 for displacement i of input k.
StoreDerivatives(raw, fn, k, i, y_up_all, y_down_all, hh) ==
    [o \in DOMAIN raw |->
        LET n == CHOOSE n2 \in DOMAIN fn.output_list : fn.output_list[n2] = o
        IN  IF y_up_all[n] # y_down_all[n]
            THEN LET sparsederiv == IF k \in DOMAIN raw[o] THEN raw[o][k] ELSE EmptyDict
                     stored == [j \in DOMAIN sparsederiv \cup {i} |->
                                   IF j = i
                                   THEN DifferenceQuotient(y_up_all[n], y_down_all[n], hh)
                                   ELSE sparsederiv[j]]
                 IN  [k2 \in DOMAIN raw[o] \cup {k} |-> IF k2 = k THEN stored ELSE raw[o][k2]]
            ELSE raw[o]]

\* Lines 113-128: one displacement i of relevant_displacements, in whatever
\* order the set is iterated.
PerturbOffset ==
    /\ pc = "perturb"
    /\ \E i \in todo :
          LET k    == shock_list.names[kpos]
              up   == [x_ss_new EXCEPT ![k] = Perturb(ss[k], h, i)]
              down == [x_ss_new EXCEPT ![k] = Perturb(ss[k], -h, i)]
          IN  /\ raw_derivatives' =
                     StoreDerivatives(raw_derivatives, f, k, i, EvalF(f, up), EvalF(f, down), h)
              /\ x_ss_new' = down
              /\ todo' = todo \ {i}
    /\ UNCHANGED <<f, ss, shock_list, h, pc, kpos, myset, J>>
    /\ UNCHANGED <<algVars, valVars, objVars>>

\* A slip in line 131: the Perturb of k stays bound while the next input is probed.
Restore_LeavesProbe ==
    /\ pc = "perturb"
    /\ todo = {}
    /\ kpos' = kpos + 1
    /\ pc' = "loop"
    /\ UNCHANGED <<f, ss, shock_list, h, x_ss_new, myset, todo, raw_derivatives, J>>
    /\ UNCHANGED <<algVars, valVars, objVars>>

\* Line 131, and on to the next input.
Restore ==
    /\ pc = "perturb"
    /\ todo = {}
    /\ x_ss_new' = [x_ss_new EXCEPT ![shock_list.names[kpos]] = Ignore(ss[shock_list.names[kpos]])]
    /\ kpos' = kpos + 1
    /\ pc' = "loop"
    /\ UNCHANGED <<f, ss, shock_list, h, myset, todo, raw_derivatives, J>>
    /\ UNCHANGED <<algVars, valVars, objVars>>

\* A slip in line 134: J built from the outputs that have a derivative only.
Assemble_DropsEmptyOutputs ==
    /\ pc = "loop"
    /\ kpos > Len(shock_list.names)
    /\ J' = [o \in {o2 \in Range(f.output_list) : DOMAIN raw_derivatives[o2] # {}} |->
                [k \in DOMAIN raw_derivatives[o] |->
                    IF T = 0
                    THEN SparseResult(from_simple_diagonals(raw_derivatives[o][k]))
                    ELSE matrix(from_simple_diagonals(raw_derivatives[o][k]), T)]]
    /\ pc' = "done"
    /\ UNCHANGED <<f, ss, shock_list, h, kpos, x_ss_new, myset, todo, raw_derivatives>>
    /\ UNCHANGED <<algVars, valVars, objVars>>

\* Lines 134-142; T = 0 stands for T omitted.
Assemble ==
    /\ pc = "loop"
    /\ kpos > Len(shock_list.names)
    /\ J' = [o \in Range(f.output_list) |->
                [k \in DOMAIN raw_derivatives[o] |->
                    IF T = 0
                    THEN SparseResult(from_simple_diagonals(raw_derivatives[o][k]))
                    ELSE matrix(from_simple_diagonals(raw_derivatives[o][k]), T)]]
    /\ pc' = "done"
    /\ UNCHANGED <<f, ss, shock_list, h, kpos, x_ss_new, myset, todo, raw_derivatives>>
    /\ UNCHANGED <<algVars, valVars, objVars>>

NextJac == JacStart \/ Discover \/ PerturbOffset \/ Restore \/ Assemble

SpecJac == InitJac /\ [][NextJac]_vars

\* The offsets at which the expression of output o reads input k.
OffsetsRead(fn, o, k) ==
    {r.at : r \in {q \in UNION {Range(fn.body[o][n].reads) : n \in DOMAIN fn.body[o]} : q.name = k}}

\* J[o][k] as an elements dict, empty when J[o] has no entry for k.
JacobianOf(o, k) == IF k \in DOMAIN J[o] THEN J[o][k].elements ELSE EmptyDict

(* C10: for a block function linear in each read of an input, jac returns  *)
(* the exact partial derivatives at the steady state: J[y][a] for          *)
(* y = a * b at a = 2, b = 3 is {(0,0): 3} and J[y][b] is {(0,0): 2};      *)
(* J[y][a] for y = a(-1) is {(-1,0): 1} with no offset-0 key; offsets at   *)
(* which the input is not read carry no key.                               *)
C10_JacIsExactDerivative ==
    (pc = "done" /\ T = 0) =>
        /\ \A o \in Range(f.output_list) : \A k \in Range(shock_list.names) :
               \A im \in DOMAIN JacobianOf(o, k) : im[1] \in OffsetsRead(f, o, k)
        /\ (f = F_lag /\ shock_list.names = <<"a">>) =>
               J["y"]["a"].elements = (<<-1, 0>> :> One)
        /\ (f = F_mul /\ ~shock_list.given /\ ss["a"] = 2 * One /\ ss["b"] = 3 * One) =>
               /\ J["y"]["a"].elements = (<<0, 0>> :> 3 * One)
               /\ J["y"]["b"].elements = (<<0, 0>> :> 2 * One)

\* The offsets at which f calls input k.
CalledOffsets(fn, k) == {r.at : r \in {q \in AllReads(fn) : q.call /\ q.name = k}}

\* Output o of f with input k bound to probe and every other input to its
\* steady state.
OutputWith(fn, sv, o, k, probe) ==
    SumOfTerms([j \in Range(fn.input_list) |-> IF j = k THEN probe ELSE Ignore(sv[j])],
               fn.body[o])

\* The offsets of k, among 0 and those f calls k with, at which the +h and
\* the -h evaluation of o differ.
DifferingOffsets(fn, sv, hh, o, k) ==
    {i \in CalledOffsets(fn, k) \cup {0} :
        OutputWith(fn, sv, o, k, Perturb(sv[k], hh, i))
            # OutputWith(fn, sv, o, k, Perturb(sv[k], -hh, i))}

(* C11: J[o][k] has the key (i,0) exactly for the offsets i of k at which  *)
(* the +h and the -h evaluation of o differ, with the coefficient          *)
(* (f_up - f_down) / (2h); every key has missing count 0; and J[o] has no  *)
(* entry for k when no offset gave a difference.                           *)
C11_KeysAreDifferingOffsets ==
    (pc = "done" /\ T = 0) =>
        \A o \in Range(f.output_list) : \A k \in Range(shock_list.names) :
            LET diff == DifferingOffsets(f, ss, h, o, k)
            IN  IF diff = {} THEN k \notin DOMAIN J[o]
                ELSE /\ k \in DOMAIN J[o]
                     /\ J[o][k].kind = "sparse"
                     /\ DOMAIN J[o][k].elements = {<<i, 0>> : i \in diff}
                     /\ \A i \in diff :
                            J[o][k].elements[<<i, 0>>] =
                                FDiv(FSub(OutputWith(f, ss, o, k, Perturb(ss[k], h, i)),
                                          OutputWith(f, ss, o, k, Perturb(ss[k], -h, i))),
                                     FMul(2 * One, h))

\* y = a(2) + a - a(0) + b(1) * b(-1) at b = 0: offset 0 of a cancels, and
\* no offset of b changes y.
C11_Witness ==
    /\ pc = "done"
    /\ T = 0
    /\ f = F_cancel
    /\ ss["a"] = 2 * One
    /\ ss["b"] = 0
    /\ shock_list.names = <<"a", "b">>
    /\ DOMAIN J["y"] = {"a"}
    /\ DOMAIN J["y"]["a"].elements = {<<2, 0>>}

(* C12: the mapping jac returns has one outer key per declared output,     *)
(* also for an output that depends on no input; its inner keys are among   *)
(* shock_list, which is all the inputs when omitted; every inner value is  *)
(* a SimpleSparse when T is omitted and a T x T matrix when T is given.    *)
C12_ContainerShape ==
    pc = "done" =>
        /\ DOMAIN J = Range(f.output_list)
        /\ ~shock_list.given => shock_list.names = f.input_list
        /\ \A o \in DOMAIN J :
               /\ DOMAIN J[o] \subseteq Range(shock_list.names)
               /\ \A k \in DOMAIN J[o] :
                      IF T = 0 THEN J[o][k].kind = "sparse"
                      ELSE /\ J[o][k].kind = "array"
                           /\ J[o][k].value.ndim = 2
                           /\ J[o][k].value.shape = <<T, T>>

\* y = a * b(-1); z = 5 with T = 2: z has an entry, which is empty.
C12_Witness ==
    /\ pc = "done"
    /\ T = 2
    /\ f = F_const
    /\ ~shock_list.given
    /\ J["z"] = EmptyDict
    /\ DOMAIN J["y"] = {"a", "b"}
    /\ J["y"]["b"].value.shape = <<2, 2>>

(* C17: the offsets at which jac perturbs input k are 0 and the offsets at  *)
(* which f called k in the discovery pass of k, and no offset recorded     *)
(* while another input was probed.                                         *)
C17_OffsetsOfThisInput ==
    pc = "perturb" =>
        LET k == shock_list.names[kpos]
        IN  /\ myset = {0} \cup CalledOffsets(f, k)
            /\ todo \subseteq myset
            /\ x_ss_new[k].kind = "Perturb" => x_ss_new[k].index \in myset \ todo
            /\ \A o \in DOMAIN raw_derivatives :
                   k \in DOMAIN raw_derivatives[o] =>
                       DOMAIN raw_derivatives[o][k] \subseteq myset \ todo

\* y = a(1) + 2 * a(-1) + b; z = 3 * b(0): b, probed after a, is perturbed at 0 only.
C17_Witness ==
    /\ pc = "perturb"
    /\ f = F_leadlag
    /\ shock_list.names = <<"a", "b">>
    /\ kpos = 2
    /\ myset = {0}
    /\ todo = {}
    /\ x_ss_new["b"].kind = "Perturb"

\* What jac returns for output o and input k when k is the only input of
\* shock_list: NoVal when J[o] has no entry for k.
JacAlone(fn, sv, hh, Tn, o, k) ==
    LET diff == DifferingOffsets(fn, sv, hh, o, k)
        sparsederiv == [i \in diff |->
                           DifferenceQuotient(OutputWith(fn, sv, o, k, Perturb(sv[k], hh, i)),
                                              OutputWith(fn, sv, o, k, Perturb(sv[k], -hh, i)),
                                              hh)]
    IN  IF diff = {} THEN NoVal
        ELSE IF Tn = 0 THEN SparseResult(from_simple_diagonals(sparsederiv))
        ELSE matrix(from_simple_diagonals(sparsederiv), Tn)

\* While k is probed or perturbed every other input is an Ignore of its
\* steady state; between inputs all are.
OthersAtSteadyState ==
    /\ pc = "perturb" =>
           \A j \in Range(f.input_list) \ {shock_list.names[kpos]} : x_ss_new[j] = Ignore(ss[j])
    /\ pc = "loop" => \A j \in Range(f.input_list) : x_ss_new[j] = Ignore(ss[j])

(* C18: at every evaluation of f made for input k every other input is     *)
(* bound to its steady state, and k is restored before the next input      *)
(* starts; so J[o][k] is what jac returns with k alone in shock_list,      *)
(* whatever the order and the other members of shock_list; and the         *)
(* steady-state mapping of the caller is never changed.                    *)
C18_InputsIsolated ==
    /\ [](OthersAtSteadyState
          /\ (pc = "done" =>
                 \A o \in Range(f.output_list) : \A k \in Range(shock_list.names) :
                     (IF k \in DOMAIN J[o] THEN J[o][k] ELSE NoVal) = JacAlone(f, ss, h, T, o, k)))
    /\ [][ss' = ss]_vars

\* y = a * b differentiated in the order b, a.
C18_Witness ==
    /\ pc = "done"
    /\ T = 0
    /\ f = F_mul
    /\ shock_list.names = <<"b", "a">>
    /\ ss["a"] = 2 * One
    /\ ss["b"] = 3 * One
    /\ DOMAIN J["y"] = {"a", "b"}

(* C19: Perturb(b, h, j) reads as b + h at offset j and as b at every      *)
(* other offset, the bare value being the read at offset 0; for j = 0 and  *)
(* j # 0, for h > 0 and h < 0.                                             *)
C19_PerturbReads ==
    pc = "perturb" =>
        \A j \in myset : \A hh \in {h, -h} :
            LET b == ss[shock_list.names[kpos]]
                p == Perturb(b, hh, j)
            IN  /\ p.float = IF j = 0 THEN FAdd(b, hh) ELSE b
                /\ \A i \in -3 .. 3 : Call(p, i) = IF i = j THEN FAdd(b, hh) ELSE b

----------------------------------------------------------------------------
(* Numbers and time paths.  A Python number is a record of its type (int   *)
(* or float) and its value in units of 2^-FracBits; a rank-1 np.ndarray is *)
(* its dtype (int64 or float64) and its data indexed from 0; None is       *)
(* NoVal.                                                                  *)

Number(type, val) == [kind |-> "number", type |-> type, val |-> val]

Ndarray(dtype, data) == [kind |-> "ndarray", dtype |-> dtype, data |-> data]

\* np.array([...]) of the members of a tuple.
ArrayOf(dtype, seq) == Ndarray(dtype, [t \in 0 .. Len(seq) - 1 |-> seq[t + 1]])

\* len(a)
Length(a) == Cardinality(DOMAIN a.data)

IsError(r) == r.kind = "error"

\* A float cast to an integer type: the fraction is dropped, towards zero.
Truncate(v) == IF v < 0 THEN -(((-v) \div One) * One) ELSE (v \div One) * One

\* A Python int or an int64 array.
IsIntTyped(a) == IF a.kind = "number" THEN a.type = "int" ELSE a.dtype = "int64"

\* Lines 627-629.
unary_operators == <<"__neg__", "__pos__">>

binary_operators ==
    <<"__add__", "__sub__", "__mul__", "__truediv__", "__pow__",
      "__radd__", "__rsub__", "__rmul__", "__rtruediv__", "__rpow__">>

Position(o) == CHOOSE n \in DOMAIN binary_operators : binary_operators[n] = o

\* Whether the name of o has the r of a reflected method at op[2].
IsReflected(o) == Position(o) > 5

\* reverse_op, lines 485-489: the r at op[2] removed, or inserted.
reverse_op(o) ==
    IF IsReflected(o) THEN binary_operators[Position(o) - 5] ELSE binary_operators[Position(o) + 5]

\* u (o) v for two values in units; ints when both operands are of an
\* integer type, whose arithmetic is exact.  The exponent of ** is a
\* non-negative integer in every expression drawn.
ArithVal(o, u, v, ints) ==
    CASE o = "__add__"     -> IF ints THEN u + v ELSE FAdd(u, v)
      [] o = "__sub__"     -> IF ints THEN u - v ELSE FSub(u, v)
      [] o = "__mul__"     -> IF ints THEN (u * v) \div One ELSE FMul(u, v)
      [] o = "__truediv__" -> FDiv(u, v)
      [] o = "__pow__"     ->
            LET k == v \div One
            IN  IF k = 0 THEN One
                ELSE IF ints THEN (u ^ k) \div (One ^ (k - 1))
                ELSE RoundRat(u ^ k, One ^ (k - 1))

\* a (o) b for numbers and arrays, element by element, with the type NumPy
\* and Python give the result.
Elementwise(o, a, b) ==
    LET ints == IsIntTyped(a) /\ IsIntTyped(b) /\ o # "__truediv__"
    IN  IF a.kind = "number" /\ b.kind = "number"
        THEN Number(IF ints THEN "int" ELSE "float", ArithVal(o, a.val, b.val, ints))
        ELSE Ndarray(IF ints THEN "int64" ELSE "float64",
                     [t \in DOMAIN (IF a.kind = "ndarray" THEN a ELSE b).data |->
                         ArithVal(o,
                                  IF a.kind = "ndarray" THEN a.data[t] ELSE a.val,
                                  IF b.kind = "ndarray" THEN b.data[t] ELSE b.val,
                                  ints)])

\* getattr(a, o)(b) for an int, a float or an ndarray a: an int does not
\* take a float, nor a number an array; a reflected method computes b (o) a.
PrimitiveMethod(o, a, b) ==
    IF a.kind = "number" /\ b.kind = "ndarray" THEN NotImplemented
    ELSE IF a.kind = "number" /\ b.kind = "number" /\ a.type = "int" /\ b.type = "float"
    THEN NotImplemented
    ELSE Elementwise(IF IsReflected(o) THEN reverse_op(o) ELSE o,
                     IF IsReflected(o) THEN b ELSE a,
                     IF IsReflected(o) THEN a ELSE b)

\* apply_unary_op, lines 502-503, for a number or an array (both exact).
apply_unary_op(o, a) ==
    IF a.kind = "number"
    THEN Number(a.type, IF o = "__neg__" THEN -a.val ELSE a.val)
    ELSE Ndarray(a.dtype, [t \in DOMAIN a.data |-> IF o = "__neg__" THEN -a.data[t] ELSE a.data[t]])

\* The two tries of apply_binary_op, lines 507-513: the answer of the
\* method of a1, else that of the reflected method of a2.
FirstAnswer(direct, reflected) ==
    IF direct # NotImplemented THEN direct
    ELSE IF reflected # NotImplemented THEN reflected
    ELSE Raised("NotImplementedError")

\* apply_binary_op, lines 506-513.
apply_binary_op(o, a1, a2) ==
    FirstAnswer(PrimitiveMethod(o, a1, a2), PrimitiveMethod(reverse_op(o), a2, a1))

\* numeric_primitive, lines 474-479; None has neither .real nor .base.
numeric_primitive(instance) ==
    CASE instance.kind \in {"number", "ndarray"} -> instance
      [] instance.kind \in {"Ignore", "Reporter", "Perturb"} -> Number("float", instance.float)
      [] instance.kind \in {"IgnoreVector", "Displace"} -> instance.base
      [] OTHER -> Raised("AttributeError")

\* Lines 516-517.
apply_unary_op_to_primitives(o, a) ==
    IF IsError(numeric_primitive(a)) THEN numeric_primitive(a)
    ELSE apply_unary_op(o, numeric_primitive(a))

\* Lines 520-523.
apply_binary_op_to_primitives(o, a1, a2) ==
    IF IsError(numeric_primitive(a1)) THEN numeric_primitive(a1)
    ELSE IF IsError(numeric_primitive(a2)) THEN numeric_primitive(a2)
    ELSE apply_binary_op(o, numeric_primitive(a1), numeric_primitive(a2))

----------------------------------------------------------------------------
(* IgnoreVector, lines 397-408, Displace, 411-432, ignore, 378-384, and    *)
(* the operators the loops of lines 644-653 install on the classes.        *)

\* np.asarray(x).view(IgnoreVector): the array is the .base of the view.
IgnoreVector(arr) == [kind |-> "IgnoreVector", base |-> arr]

\* Displace.__new__, lines 415-419.
Displace(arr, ssv, name) == [kind |-> "Displace", base |-> arr, ss |-> ssv, name |-> name]

\* ignore, lines 378-384.
ignore(v) ==
    CASE v.kind = "number"  -> Ignore(v.val)
      [] v.kind = "ndarray" -> IgnoreVector(v)
      [] OTHER              -> Raised("TypeError")

\* np.full(n, fill) for a Python number: the dtype is that of the number.
Full(n, fill) ==
    Ndarray(IF fill.type = "int" THEN "int64" ELSE "float64", [t \in 0 .. n - 1 |-> fill.val])

SetMin(S) == CHOOSE m \in S : \A n \in S : m <= n

\* dest[dIdx] = src[sIdx] for two slices of step 1: the values are cast to
\* the dtype of dest; slices of different lengths cannot be assigned.
AssignSlice(dest, dIdx, src, sIdx) ==
    IF Cardinality(dIdx) # Cardinality(sIdx) THEN Raised("ValueError")
    ELSE Ndarray(dest.dtype,
                 [t \in DOMAIN dest.data |->
                     IF t \in dIdx
                     THEN LET v == src.data[SetMin(sIdx) + (t - SetMin(dIdx))]
                          IN  IF dest.dtype = "int64" /\ src.dtype = "float64"
                              THEN Truncate(v) ELSE v
                     ELSE dest.data[t]])

\* The KeyError of line 424, whose message holds self.name and index.
MissingSteadyState(name, idx) ==
    [kind |-> "error", error |-> "KeyError", name |-> name, index |-> idx]

\* A slip in lines 422-423: the steady state is required at offset 0 too.
Displace_call_ChecksFirst(self, idx) ==
    IF self.ss = NoVal THEN MissingSteadyState(self.name, idx) ELSE self

\* Displace.__call__, lines 421-432; an omitted slice bound is 0 or n.
Displace_call(self, idx) ==
    IF idx # 0
    THEN IF self.ss = NoVal THEN MissingSteadyState(self.name, idx)
         ELSE LET n    == Length(self.base)
                  newx == Full(n, self.ss)
                  set  == IF idx > 0
                          THEN AssignSlice(newx, SliceIndices(0, -idx, 1, n),
                                           self.base, SliceIndices(idx, n, 1, n))
                          ELSE AssignSlice(newx, SliceIndices(-idx, n, 1, n),
                                           self.base, SliceIndices(0, idx, 1, n))
              IN  IF IsError(set) THEN set ELSE Displace(set, self.ss, "UNKNOWN")
    ELSE self

\* compute_displace_attributes, lines 634-641: the ss of the result; arg is
\* the tuple *arg, empty for a unary operator.
compute_displace_attributes(o, self, arg) ==
    IF arg = <<>> THEN apply_unary_op_to_primitives(o, self.ss)
    ELSE IF arg[1].kind = "Displace"
    THEN apply_binary_op_to_primitives(o, self.ss, arg[1].ss)
    ELSE apply_binary_op_to_primitives(o, self.ss, arg[1])

\* constructor(value, **attributes) of lines 548-555, or the exception
\* raised while value, and then attributes, was computed.
Construct(constructor, value, attributes) ==
    IF IsError(value) THEN value
    ELSE IF constructor = "ignore" THEN ignore(value)
    ELSE IF IsError(attributes) THEN attributes
    ELSE Displace(value, attributes, "UNKNOWN")

\* The lambda _overload_operator returns, lines 528-555, applied to self and
\* arg: constructor is ignore (no customize_attributes) or Displace (with
\* compute_displace_attributes).  The value is computed before the
\* attributes.
overload_operator(constructor, o, self, arg) ==
    Construct(constructor,
              IF arg = <<>> THEN apply_unary_op_to_primitives(o, self)
              ELSE apply_binary_op_to_primitives(o, self, arg[1]),
              compute_displace_attributes(o, self, arg))

\* op_override, lines 600-606, as installed on Ignore and IgnoreVector by
\* lines 650-653.
op_override(o, self, other) ==
    IF other.kind = "Displace"
    THEN overload_operator("Displace", reverse_op(o), other, <<self>>)
    ELSE overload_operator("ignore", o, self, <<other>>)

\* getattr(v, o)(*arg) for v an Ignore, an IgnoreVector or a Displace, after
\* lines 644-653: the binary operators of Ignore and IgnoreVector set by
\* lines 644-645 are replaced by those of lines 650-653.
Method(v, o, arg) ==
    IF v.kind = "Displace" \/ arg = <<>>
    THEN overload_operator(IF v.kind = "Displace" THEN "Displace" ELSE "ignore", o, v, arg)
    ELSE op_override(o, v, arg[1])

\* The expression a (o) b as Python evaluates it.  With a number on the left
\* the reflected method of b answers: float gives way to its subclass
\* Ignore, and the method of an int or a float returns NotImplemented for
\* the other classes.
BinaryExpression(o, a, b) ==
    IF a.kind = "number"
    THEN IF b.kind = "number" THEN apply_binary_op(o, a, b)
         ELSE Method(b, reverse_op(o), <<a>>)
    ELSE Method(a, o, <<b>>)

\* The expression -a or +a.
UnaryExpression(o, a) == IF a.kind = "number" THEN apply_unary_op(o, a) ELSE Method(a, o, <<>>)

----------------------------------------------------------------------------
(* The value specification: two operands are drawn from plain numbers,     *)
(* Ignore, IgnoreVector and Displace (as constructed, or already shifted)  *)
(* and one expression over them is evaluated.                              *)

\* Length of the time paths drawn.
PathLength == 3

\* The offsets drawn for a call: beyond the length of the path on both sides.
CallOffsets == -(PathLength + 1) .. (PathLength + 1)

\* 2 and 1.5
ValueNumbers == {Number("int", 2 * One), Number("float", One + One \div 2)}

\* [1.5, 2.5, 3.5] and [1, 2, 3]
ValueArrays ==
    {Ndarray("float64", [t \in 0 .. PathLength - 1 |-> t * One + One + One \div 2]),
     Ndarray("int64", [t \in 0 .. PathLength - 1 |-> (t + 1) * One])}

\* The steady states of a Displace: None, 2 and 0.5.
ValueSteadyStates == {NoVal, Number("int", 2 * One), Number("float", One \div 2)}

DisplaceOriginals == {Displace(a, sv, "K") : a \in ValueArrays, sv \in ValueSteadyStates}

\* K(1) and K(-1) for the paths that have a steady state.
DisplaceShifted ==
    {Displace_call(d, i) : d \in {d2 \in DisplaceOriginals : d2.ss # NoVal}, i \in {-1, 1}}

Operands ==
    ValueNumbers \cup {Ignore(3 * One)} \cup {IgnoreVector(a) : a \in ValueArrays}
        \cup DisplaceOriginals \cup DisplaceShifted

\* Whether v, used as the exponent of **, is a non-negative integer in its
\* plain value and in its steady state.
IntegralExponent(v) ==
    LET vals == IF v.kind = "number" THEN {v.val}
                ELSE IF v.kind = "Ignore" THEN {v.float}
                ELSE {v.base.data[t] : t \in DOMAIN v.base.data}
                         \cup (IF v.kind = "Displace" /\ v.ss # NoVal THEN {v.ss.val} ELSE {})
    IN  \A u \in vals : u >= 0 /\ u % One = 0

InitValues ==
    /\ AlgIdle
    /\ JacIdle
    /\ T = 0
    /\ left \in Operands
    /\ right \in Operands
    /\ offset \in CallOffsets
    /\ opname = "none"
    /\ kwargs = EmptyDict
    /\ res = NoVal
    /\ ObjIdle

\* left(offset) for a Displace.
CallDisplace ==
    /\ opname = "none"
    /\ left.kind = "Displace"
    /\ res' = Displace_call(left, offset)
    /\ opname' = "call"
    /\ UNCHANGED <<left, right, offset, kwargs>>
    /\ UNCHANGED <<algVars, jacVars, objVars>>

\* left (o) right for one of +, -, *, /, **.
EvaluateBinary ==
    /\ opname = "none"
    /\ \E n \in 1 .. 5 :
          /\ binary_operators[n] = "__pow__" => IntegralExponent(right)
          /\ res' = BinaryExpression(binary_operators[n], left, right)
          /\ opname' = binary_operators[n]
    /\ UNCHANGED <<left, right, offset, kwargs>>
    /\ UNCHANGED <<algVars, jacVars, objVars>>

\* -left or +left.
EvaluateUnary ==
    /\ opname = "none"
    /\ \E n \in DOMAIN unary_operators :
          /\ res' = UnaryExpression(unary_operators[n], left)
          /\ opname' = unary_operators[n]
    /\ UNCHANGED <<left, right, offset, kwargs>>
    /\ UNCHANGED <<algVars, jacVars, objVars>>

NextValues == CallDisplace \/ EvaluateBinary \/ EvaluateUnary

SpecValues == InitValues /\ [][NextValues]_vars

(* C13: for a Displace x of length n with steady state ss, x(k) with       *)
(* k # 0, also |k| >= n, is a new path of length n with the same ss whose  *)
(* entry t is x[t + k] when 0 <= t + k < n and ss otherwise; x(0) is x.    *)
C13_CallShiftsPath ==
    (opname = "call" /\ left.ss # NoVal) =>
        IF offset = 0 THEN res = left
        ELSE /\ res.kind = "Displace"
             /\ res.ss = left.ss
             /\ DOMAIN res.base.data = DOMAIN left.base.data
             /\ \A t \in DOMAIN res.base.data :
                    res.base.data[t] =
                        IF t + offset \in DOMAIN left.base.data
                        THEN left.base.data[t + offset] ELSE left.ss.val

(* C14: a time path without steady state, evaluated at a nonzero offset,   *)
(* fails with an error naming the variable and the offset and returns no   *)
(* path; evaluated at offset 0 it returns the identical sequence.          *)
C14_MissingSteadyState ==
    (opname = "call" /\ left.ss = NoVal) =>
        IF offset = 0 THEN res = left
        ELSE /\ IsError(res)
             /\ res.error = "KeyError"
             /\ res.name = left.name
             /\ res.index = offset

C14_Witness ==
    /\ opname = "call"
    /\ left.ss = NoVal
    /\ left.name = "K"
    /\ offset = -2
    /\ res = MissingSteadyState("K", -2)

\* Displace over IgnoreVector over Ignore over plain number.
KindRank(v) ==
    CASE v.kind = "Displace" -> 3 [] v.kind = "IgnoreVector" -> 2 [] v.kind = "Ignore" -> 1
      [] OTHER -> 0

\* The steady state an operand brings: its ss for a Displace, itself otherwise.
SteadyOf(v) == IF v.kind = "Displace" THEN v.ss ELSE numeric_primitive(v)

\* The kind, the plain value and the steady state the result of the
\* expression evaluated has to have.
PromotionHolds ==
    /\ ~IsError(res)
    /\ IF opname \in {"__neg__", "__pos__"}
       THEN /\ KindRank(res) = KindRank(left)
            /\ numeric_primitive(res) = apply_unary_op(opname, numeric_primitive(left))
            /\ res.kind = "Displace" => res.ss = apply_unary_op(opname, left.ss)
       ELSE /\ KindRank(res) = Max(KindRank(left), KindRank(right))
            /\ numeric_primitive(res) =
                   apply_binary_op(opname, numeric_primitive(left), numeric_primitive(right))
            /\ res.kind = "Displace" =>
                   res.ss = apply_binary_op(opname, SteadyOf(left), SteadyOf(right))

(* C15: for every operator among +, -, *, /, **, unary - and unary + and   *)
(* every pair of operands among plain number, Ignore, IgnoreVector and     *)
(* Displace, the result has the most informative kind of the operands, its *)
(* plain value is the operator applied to the plain values, and the ss of  *)
(* a Displace result is the operator applied to the operands' steady       *)
(* states.                                                                 *)
C15_PromotionEverywhere == opname \notin {"none", "call"} => PromotionHolds

----------------------------------------------------------------------------
(* SimpleBlock.td, simple_block.py 51-65.  The block functions are those   *)
(* jac is checked on; here their reads are values of the classes above and *)
(* their operators the ones those classes install.  A coefficient 1 is not *)
(* written in the expression: y = a * b is a product of two reads.         *)

\* np.isscalar(v)
isscalar(v) == v.kind = "number"

\* a (o) b, or the exception either operand already is.
Expression(o, a, b) ==
    IF IsError(a) THEN a ELSE IF IsError(b) THEN b ELSE BinaryExpression(o, a, b)

\* The value of a read under the bindings of td: Ignore.__call__ returns self.
PathRead(bind, r) ==
    IF ~r.call THEN bind[r.name]
    ELSE IF bind[r.name].kind = "Displace" THEN Displace_call(bind[r.name], r.at)
    ELSE bind[r.name]

RECURSIVE PathProduct(_, _)
PathProduct(bind, reads) ==
    IF Len(reads) = 1 THEN PathRead(bind, reads[1])
    ELSE Expression("__mul__", PathRead(bind, reads[1]), PathProduct(bind, Tail(reads)))

PathTerm(bind, term) ==
    IF term.reads = <<>> THEN Number("int", term.c * One)
    ELSE IF term.c = 1 THEN PathProduct(bind, term.reads)
    ELSE Expression("__mul__", Number("int", term.c * One), PathProduct(bind, term.reads))

RECURSIVE PathSum(_, _)
PathSum(bind, terms) ==
    IF Len(terms) = 1 THEN PathTerm(bind, terms[1])
    ELSE Expression("__add__", PathTerm(bind, terms[1]), PathSum(bind, Tail(terms)))

\* A dict returned to the caller.
DictResult(d) == [kind |-> "dict", value |-> d]

\* utils.make_tuple: a list or a tuple is returned as it is.
make_tuple(v) == v

\* dict(zip(names, p)) for one name: an array is iterated entry by entry and
\* zip stops after the first; a number cannot be iterated.
ZipOne(name, p) ==
    IF p.kind # "ndarray" THEN Raised("TypeError")
    ELSE IF Length(p) = 0 THEN DictResult(EmptyDict)
    ELSE DictResult([o \in {name} |->
             Number(IF p.dtype = "int64" THEN "int" ELSE "float", p.data[0])])

\* kwargs_new, lines 52-60.
Bindings(fn, sv, kw) ==
    [k \in Range(fn.input_list) |->
        IF k \in DOMAIN kw
        THEN Displace(kw[k], IF k \in DOMAIN sv THEN sv[k] ELSE NoVal, k)
        ELSE Ignore(sv[k].val)]

\* self.f(**kwargs_new): the outputs in the order of output_list.
Outputs(fn, bind) == [n \in DOMAIN fn.output_list |-> PathSum(bind, fn.body[fn.output_list[n]])]

\* dict(zip(names, values)) for as many values as names.
ZipAll(names, values) ==
    DictResult([o \in Range(names) |-> values[CHOOSE n \in DOMAIN values : names[n] = o]])

\* The exception among the outputs that is raised first.
FirstError(outs) == outs[SetMin({n \in DOMAIN outs : IsError(outs[n])})]

\* Lines 62-65 for the outputs outs of f.
Returned(fn, outs) ==
    IF \E n \in DOMAIN outs : IsError(outs[n]) THEN FirstError(outs)
    ELSE IF Len(fn.output_list) > 1
    THEN ZipAll(fn.output_list, make_tuple([n \in DOMAIN outs |-> numeric_primitive(outs[n])]))
    ELSE ZipOne(fn.output_list[1], numeric_primitive(outs[1]))

\* SimpleBlock.td(ss, **kwargs) for the block of function fn.
td(fn, sv, kw) ==
    IF \E k \in DOMAIN kw : isscalar(kw[k]) THEN Raised("ValueError")
    ELSE IF \E k \in Range(fn.input_list) \ DOMAIN kw : k \notin DOMAIN sv THEN Raised("KeyError")
    ELSE Returned(fn, Outputs(fn, Bindings(fn, sv, kw)))

\* The values of a td argument: a time path, or a scalar passed by mistake.
PathArguments == ValueArrays \cup {Number("float", One + One \div 2)}

InitTd ==
    /\ AlgIdle
    /\ T = 0
    /\ f \in BlockFunctions
    /\ ss \in [Range(f.input_list) -> {Number("int", 2 * One), Number("float", One \div 2)}]
    /\ kwargs \in UNION {[names -> PathArguments] : names \in SUBSET Range(f.input_list)}
    /\ shock_list = <<>>
    /\ h = 0
    /\ pc = "idle"
    /\ kpos = 0
    /\ x_ss_new = EmptyDict
    /\ myset = {}
    /\ todo = {}
    /\ raw_derivatives = EmptyDict
    /\ J = EmptyDict
    /\ left = NoVal
    /\ right = NoVal
    /\ offset = 0
    /\ opname = "none"
    /\ res = NoVal
    /\ ObjIdle

\* block.td(ss, **kwargs)
TimePath ==
    /\ opname = "none"
    /\ res' = td(f, ss, kwargs)
    /\ opname' = "td"
    /\ UNCHANGED <<left, right, offset, kwargs>>
    /\ UNCHANGED <<algVars, jacVars, objVars>>

NextTd == TimePath

SpecTd == InitTd /\ [][NextTd]_vars

(* C16: td, given time paths for some inputs and a steady state for the    *)
(* rest, returns a mapping with one entry per declared output whose value  *)
(* is the full time path of that output, of the length of the input paths, *)
(* for a block with one output as for a block with several; a scalar       *)
(* passed as time path is rejected with an error.                          *)
C16_TdReturnsWholePaths ==
    opname = "td" =>
        IF \E k \in DOMAIN kwargs : isscalar(kwargs[k])
        THEN IsError(res) /\ res.error = "ValueError"
        ELSE kwargs # EmptyDict =>
                 /\ res.kind = "dict"
                 /\ DOMAIN res.value = Range(f.output_list)
                 /\ \A o \in DOMAIN res.value :
                        /\ res.value[o].kind = "ndarray"
                        /\ Length(res.value[o]) = PathLength

----------------------------------------------------------------------------
(* Objects by identity.  heap[id] is the Python object of identity id: a   *)
(* dict, a SimpleSparse with the identity of its elements dict and its     *)
(* cache of array(), the memory of an array (its data in C order, indexed  *)
(* from 0), or an ndarray viewing a memory.  An object constructed takes   *)
(* the next identity.  A temporary nothing refers to once the method has   *)
(* returned (-A in self + (-A), self.T and A.T in __rmatmul__, the zeros   *)
(* of matrix) is not kept: the method is handed what it holds.             *)

DictObject(e) == [kind |-> "dict", items |-> e]

\* SimpleSparse.__init__, lines 177-179: the dict handed in is kept, not copied.
SimpleSparse(elements) ==
    [kind |-> "SimpleSparse", elements |-> elements, indices |-> NoVal, xs |-> NoVal]

Memory(flat) == [kind |-> "memory", data |-> flat]

\* An ndarray of the given shape over a memory; transposed for a .T view of
\* a matrix, whose memory holds the rows of the matrix it was taken of.
ArrayObject(shape, memory, transposed) ==
    [kind |-> "ndarray", shape |-> shape, memory |-> memory, transposed |-> transposed]

\* A Python number with an exact value, and a reference to an object.
Scalar(a) == [kind |-> "number", val |-> a]

Reference(id) == [kind |-> "object", id |-> id]

\* What a method hands back, with the heap it leaves: the object constructed
\* last, or an exception.
Constructed(hp) == [heap |-> hp, result |-> Reference(Len(hp))]

Failed(hp, r) == [heap |-> hp, result |-> r]

\* self.elements, as the mapping it holds.
Elements(hp, self) == hp[hp[self].elements].items

\* The entry (t, c) of a matrix over the memory b.
Cell(a, b, t, c) == IF a.transposed THEN b[c * a.shape[1] + t] ELSE b[t * a.shape[2] + c]

\* The array the ndarray object a is, read through its memory b.
ViewOf(a, b) ==
    IF Len(a.shape) = 1 THEN Vector(a.shape[1], [t \in 0 .. a.shape[1] - 1 |-> b[t]])
    ELSE Matrix2(a.shape[1], a.shape[2],
                 [t \in 0 .. a.shape[1] - 1 |->
                     [c \in 0 .. a.shape[2] - 1 |-> Cell(a, b, t, c)]])

\* The contents of the ndarray of identity id.
Contents(hp, id) == ViewOf(hp[id], hp[hp[id].memory].data)

\* The data of an array in C order.
Flat(a) ==
    IF a.ndim = 1 THEN a.data
    ELSE [idx \in 0 .. a.shape[1] * a.shape[2] - 1 |->
             a.data[idx \div a.shape[2]][idx % a.shape[2]]]

\* A new array of contents a, with its memory.
NewArray(hp, a) ==
    Append(Append(hp, Memory(Flat(a))), ArrayObject(a.shape, Len(hp) + 1, FALSE))

\* SimpleSparse(e) for a dict e built by the method.
NewSparse(hp, e) == Append(Append(hp, DictObject(e)), SimpleSparse(Len(hp) + 1))

\* The dict of __neg__, line 221.
neg_elements(e) == [im \in DOMAIN e |-> -e[im]]

\* The dict of __mul__, line 291.
mul_elements(e, a) == [im \in DOMAIN e |-> a * e[im]]

\* The loop of lines 248-255 on the dict of identity elements, and line 256.
AddInto(hp, elements, y) ==
    Append([hp EXCEPT ![elements].items = add_sparse(hp[elements].items, y)],
           SimpleSparse(elements))

\* A slip in line 247: elements is self.elements itself, not a copy of it.
add_obj_NoCopy(hp, self, other) ==
    Constructed(AddInto(hp, hp[self].elements, Elements(hp, other)))

\* __add__, sparse branch, lines 245-256: elements = self.elements.copy() is
\* a new dict.
add_obj(hp, self, other) ==
    Constructed(AddInto(Append(hp, hp[hp[self].elements]), Len(hp) + 1, Elements(hp, other)))

\* The loop of lines 266-270 on the flat array over the memory given, and the
\* reshape of line 271, a view of that memory.
AddOnto(hp, memory, e, Tn) ==
    Append([hp EXCEPT ![memory].data = AddDiagonals(hp[memory].data, e, DOMAIN e, Tn)],
           ArrayObject(<<Tn, Tn>>, memory, FALSE))

\* __add__, dense branch, lines 257-271, for self.elements e and an ndarray
\* of contents a: A.flatten() is a new memory.
add_dense_obj(hp, e, a) ==
    IF a.ndim # 2 \/ a.shape[1] # a.shape[2] THEN Failed(hp, BinaryOp(NotImplemented))
    ELSE Constructed(AddOnto(Append(hp, Memory(Flat(a))), Len(hp) + 1, e, a.shape[1]))

\* -A for an ndarray.
NegArray(a) ==
    IF a.ndim = 1 THEN Vector(a.shape[1], [t \in DOMAIN a.data |-> -a.data[t]])
    ELSE Matrix2(a.shape[1], a.shape[2],
                 [t \in DOMAIN a.data |-> [c \in DOMAIN a.data[t] |-> -a.data[t][c]]])

\* array(), lines 190-201, for a dict that is not empty: indices and xs are
\* new arrays, kept as the mapping they pair up.
array_obj(hp, self) ==
    IF hp[self].indices # NoVal THEN hp
    ELSE [hp EXCEPT ![self].indices = ArrayResult(DOMAIN Elements(hp, self)),
                    ![self].xs = ArrayResult(Elements(hp, self))]

\* multiply_rs_matrix(indices, xs, A) of lines 229-233 once array() has
\* returned: Aout is a new array.
matmul_cached(hp, self, a) ==
    Constructed(NewArray(hp, IF a.ndim = 2 THEN multiply_rs_matrix(hp[self].xs.value, a)
                             ELSE FirstColumn(multiply_rs_matrix(hp[self].xs.value, NewAxis(a)))))

\* The .T view line 242 returns, over the memory of the product r.
TransposedView(hp, r) ==
    IF r.ndim = 1 THEN NewArray(hp, r)
    ELSE Append(Append(hp, Memory(Flat(r))),
                ArrayObject(<<r.shape[2], r.shape[1]>>, Len(hp) + 1, TRUE))

\* (self.T @ A.T).T of line 242 as an object, r being what the expression
\* evaluates to.
Viewed(hp, r) ==
    IF r.kind = "array" THEN Constructed(TransposedView(hp, ArrayT(r.value))) ELSE Failed(hp, r)

----------------------------------------------------------------------------
(* The object specification: two SimpleSparse operators, a matrix and a    *)
(* vector are constructed, and operations of the algebra are applied in    *)
(* turn to any of the objects there are, results of earlier operations     *)
(* included.                                                               *)

\* Most objects constructed in one run.
MaxObjects == 12

ObjKeys == {<<0, 0>>, <<1, 0>>, <<-1, 1>>}

\* Up to two keys; the sum of 1 and -1 is below the threshold of __add__.
ObjOperators == OperatorsOver(ObjKeys, {1, -1}, 2)

\* Scalars handed to *.
Scalars == {0, 2}

\* The horizons handed to matrix.
Horizons == {2}

\* The objects of a kind.
OfKind(hp, kind) == {id \in DOMAIN hp : hp[id].kind = kind}

\* s1 = SimpleSparse(x), s2 = SimpleSparse(y), A = np.array of a 2 x 2 matrix,
\* v = np.array of a vector.
InitialHeap(x, y) ==
    NewArray(NewArray(NewSparse(NewSparse(<<>>, x), y), Ramp(2, 2)),
             Vector(2, [t \in 0 .. 1 |-> t + 1]))

InitObjects ==
    /\ AlgIdle
    /\ T = 0
    /\ JacIdle
    /\ ValIdle
    /\ \E x \in ObjOperators : \E y \in {EmptyDict, (<<0, 0>> :> 1 @@ <<1, 0>> :> -1)} :
           heap = InitialHeap(x, y)
    /\ call = NoVal

\* The statement evaluated leaves the heap r.heap and its value r.result; no
\* statement constructs more than two objects that stay.
Evaluate(name, self, other, r) ==
    /\ Len(heap) + 2 <= MaxObjects
    /\ heap' = r.heap
    /\ call' = [op |-> name, self |-> self, other |-> other, result |-> r.result]
    /\ UNCHANGED <<algVars, jacVars, valVars>>

\* self.T, lines 212-215
ObjTranspose ==
    \E self \in OfKind(heap, "SimpleSparse") :
        Evaluate("T", self, NoVal,
                 Constructed(NewSparse(heap, TransposeSparse(Elements(heap, self)))))

\* -self, lines 220-221
ObjNegate ==
    \E self \in OfKind(heap, "SimpleSparse") :
        Evaluate("neg", self, NoVal,
                 Constructed(NewSparse(heap, neg_elements(Elements(heap, self)))))

\* self * a and a * self, lines 288-294, for a number a, or for another
\* SimpleSparse, which np.isscalar rejects and whose reflected method rejects
\* self in turn.
ObjScale ==
    \E self \in OfKind(heap, "SimpleSparse") :
        \E a \in {Scalar(n) : n \in Scalars} \cup {Reference(o) : o \in OfKind(heap, "SimpleSparse")} :
            Evaluate("mul", self, a,
                     IF ~isscalar(a) THEN Failed(heap, BinaryOp(NotImplemented))
                     ELSE Constructed(NewSparse(heap, mul_elements(Elements(heap, self), a.val))))

\* self + other, lines 244-271
ObjAdd ==
    \E self \in OfKind(heap, "SimpleSparse") :
        \E other \in OfKind(heap, "SimpleSparse") \cup OfKind(heap, "ndarray") :
            Evaluate("add", self, Reference(other),
                     IF heap[other].kind = "SimpleSparse" THEN add_obj(heap, self, other)
                     ELSE add_dense_obj(heap, Elements(heap, self), Contents(heap, other)))

\* self - other, lines 281-283: self + (-other); for a SimpleSparse the
\* elements of -other are those of line 221.
ObjSubtract ==
    \E self \in OfKind(heap, "SimpleSparse") :
        \E other \in OfKind(heap, "SimpleSparse") \cup OfKind(heap, "ndarray") :
            Evaluate("sub", self, Reference(other),
                     IF heap[other].kind = "SimpleSparse"
                     THEN Constructed(AddInto(Append(heap, heap[heap[self].elements]),
                                              Len(heap) + 1,
                                              neg_elements(Elements(heap, other))))
                     ELSE add_dense_obj(heap, Elements(heap, self),
                                        NegArray(Contents(heap, other))))

\* other - self for an ndarray other, lines 285-286: -self + other
ObjReflectedSubtract ==
    \E self \in OfKind(heap, "SimpleSparse") : \E other \in OfKind(heap, "ndarray") :
        Evaluate("rsub", self, Reference(other),
                 add_dense_obj(heap, neg_elements(Elements(heap, self)), Contents(heap, other)))

\* self @ other, lines 223-237; in array(), zip(*elements.items()) of an empty
\* dict cannot be unpacked into two names.
ObjMatMul ==
    \E self \in OfKind(heap, "SimpleSparse") :
        \E other \in OfKind(heap, "SimpleSparse") \cup OfKind(heap, "ndarray") :
            Evaluate("matmul", self, Reference(other),
                     IF heap[other].kind = "SimpleSparse"
                     THEN Constructed(NewSparse(heap, multiply_rs_rs(Elements(heap, self),
                                                                     Elements(heap, other))))
                     ELSE IF heap[self].indices = NoVal /\ DOMAIN Elements(heap, self) = {}
                     THEN Failed(heap, Raised("ValueError"))
                     ELSE matmul_cached(array_obj(heap, self), self, Contents(heap, other)))

\* other @ self for an ndarray other, lines 239-242: (self.T @ other.T).T;
\* the cache array() fills is that of self.T.
ObjRMatMul ==
    \E self \in OfKind(heap, "SimpleSparse") : \E other \in OfKind(heap, "ndarray") :
        Evaluate("rmatmul", self, Reference(other),
                 Viewed(heap, rmatmul_dense(Elements(heap, self), Contents(heap, other))))

\* self.matrix(T), lines 186-188
ObjMatrix ==
    \E self \in OfKind(heap, "SimpleSparse") : \E Tn \in Horizons :
        Evaluate("matrix", self, Scalar(Tn),
                 add_dense_obj(heap, Elements(heap, self), Zeros(Tn, Tn)))

NextObjects ==
    \/ ObjTranspose
    \/ ObjNegate
    \/ ObjScale
    \/ ObjAdd
    \/ ObjSubtract
    \/ ObjReflectedSubtract
    \/ ObjMatMul
    \/ ObjRMatMul
    \/ ObjMatrix

SpecObjects == InitObjects /\ [][NextObjects]_vars

\* Every object there is keeps its mapping, or its contents, over the step.
OperandsKept ==
    \A id \in DOMAIN heap :
        /\ id \in DOMAIN heap'
        /\ heap'[id].kind = heap[id].kind
        /\ heap[id].kind = "SimpleSparse" => Elements(heap', id) = Elements(heap, id)
        /\ heap[id].kind = "ndarray" => Contents(heap', id) = Contents(heap, id)

\* The operator returned by - or by * with a number has the keys of self.
KeysKept ==
    (call # NoVal /\ call.op \in {"neg", "mul"} /\ call.result.kind = "object") =>
        DOMAIN Elements(heap, call.result.id) = DOMAIN Elements(heap, call.self)

(* C21: over any sequence of add, subtract, negate, scalar multiply,       *)
(* transpose, sparse-sparse compose, sparse-dense compose and materialize  *)
(* operations, every step leaves the key -> coefficient mapping of every   *)
(* SimpleSparse and the contents of every ndarray as they were before it,  *)
(* and negate and scalar multiply return an operator with exactly the key  *)
(* set of their operand.                                                   *)
C21_OperandsNeverMutated == [][OperandsKept]_vars /\ []KeysKept

\* s1 + s2 was evaluated first and dropped a key of s1 from its copy; the sum
\* was then scaled by 0.  s1 has its two keys still, and the product has the
\* key of the sum.
C21_Witness ==
    /\ call # NoVal
    /\ call.op = "mul"
    /\ call.other = Scalar(0)
    /\ call.self = 10
    /\ call.result.kind = "object"
    /\ Cardinality(DOMAIN Elements(heap, 2)) = 2
    /\ Elements(heap, 10) = add_sparse(Elements(heap, 2), Elements(heap, 4))
    /\ Cardinality(DOMAIN Elements(heap, 10)) = 1
    /\ DOMAIN Elements(heap, call.result.id) = DOMAIN Elements(heap, 10)

============================================================================
